---- MODULE Spec2Model ----
(***************************************************************************)
(* A model of the zen_ai backend: the chat routes (chats/routes.py), the   *)
(* text-generation client (ai/gemini.py) and the notes service            *)
(* (notes/service.py).                                                     *)
(*                                                                         *)
(* Text is modelled as a sequence of one-character strings, so that        *)
(* str.strip(), str.lower() and str.splitlines() are computed, not assumed.*)
(* An optional value is a sequence of length at most one: <<>> is          *)
(* None / absent, <<x>> is a present x.                                    *)
(***************************************************************************)
EXTENDS Integers, Sequences, FiniteSets, TLC

VARIABLES
    chats,      \* chat id -> <<>> (no document) or <<chat document>>
    messages,   \* chat id -> the chat's messages sub-collection, by createdAt
    files,      \* chat id -> the chat's files sub-collection (metadata documents)
    disk,       \* the files under the upload root: a set of storage paths
    clock,      \* the last value _now() returned
    nextChat,   \* number of chat document ids handed out so far
    nextFile,   \* number of uuid4 file ids handed out so far
    apiKey,     \* current_app.config["GEMINI_API_KEY"]: <<>> or <<key>>
    resp,       \* the last request and the response it got
    notes,      \* note id -> <<>> or <<note document>>
    nextNote,   \* number of note document ids handed out so far
    noteClock,  \* the last SERVER_TIMESTAMP the store gave a note
    gen,        \* the last direct call of the text-generation client and its result
    users,      \* uid -> <<>> or <<profile document>> (a function of its field names)
    userClock   \* the last SERVER_TIMESTAMP the store gave a profile

vars == <<chats, messages, files, disk, clock, nextChat, nextFile, apiKey, resp,
          notes, nextNote, noteClock, gen, users, userClock>>

chatVars == <<chats, messages, files, disk, clock, nextChat, nextFile, apiKey>>
noteVars == <<notes, nextNote, noteClock>>
userVars == <<users, userClock>>

(***************************************************************************)
(* Bounds of the model.                                                    *)
(***************************************************************************)
MaxChats == 1
MaxMsgs == 4
MaxFiles == 1
MaxClock == 5
MaxNotes == 2
MaxNoteClock == 3

(***************************************************************************)
(* Text.                                                                   *)
(***************************************************************************)
Whitespace == {" ", "\n", "\t"}

RECURSIVE LStripSet(_, _)
LStripSet(s, cs) ==
    IF s # <<>> /\ Head(s) \in cs THEN LStripSet(Tail(s), cs) ELSE s

RECURSIVE RStripSet(_, _)
RStripSet(s, cs) ==
    IF s # <<>> /\ s[Len(s)] \in cs
    THEN RStripSet(SubSeq(s, 1, Len(s) - 1), cs)
    ELSE s

\* str.strip(chars)
StripSet(s, cs) == RStripSet(LStripSet(s, cs), cs)

\* str.strip()
Strip(s) == StripSet(s, Whitespace)

\* str.rstrip()
RStrip(s) == RStripSet(s, Whitespace)

UpperLetters ==
    <<"A", "B", "C", "D", "E", "F", "G", "H", "I", "J", "K", "L", "M",
      "N", "O", "P", "Q", "R", "S", "T", "U", "V", "W", "X", "Y", "Z">>
LowerLetters ==
    <<"a", "b", "c", "d", "e", "f", "g", "h", "i", "j", "k", "l", "m",
      "n", "o", "p", "q", "r", "s", "t", "u", "v", "w", "x", "y", "z">>
Digits == {"0", "1", "2", "3", "4", "5", "6", "7", "8", "9"}

LowerChar(ch) ==
    IF \E i \in 1..Len(UpperLetters) : UpperLetters[i] = ch
    THEN LowerLetters[CHOOSE i \in 1..Len(UpperLetters) : UpperLetters[i] = ch]
    ELSE ch

\* str.lower()
Lower(s) == [i \in 1..Len(s) |-> LowerChar(s[i])]

\* str.splitlines()[0] of a non-empty text
RECURSIVE FirstLine(_)
FirstLine(s) ==
    IF s = <<>> \/ Head(s) = "\n" THEN <<>> ELSE <<Head(s)>> \o FirstLine(Tail(s))

NewChat == <<"N", "e", "w", " ", "c", "h", "a", "t">>
NewChatLower == <<"n", "e", "w", " ", "c", "h", "a", "t">>

(***************************************************************************)
(* ai/gemini.py                                                            *)
(***************************************************************************)
role_map_unmapped(role) == role
role_map(role) ==
    CASE role = "user" -> "user"
      [] role = "assistant" -> "model"
      [] role = "model" -> "model"
      [] role = "system" -> "user"
      [] OTHER -> "user"

\* What one entry of message["parts"] contributes: a sequence of zero or one Part.
\* A raw part is [kind, text, ok]; ok says that the bytes / upload were usable.
format_part(p) ==
    CASE p.kind = "Part" -> <<[kind |-> "part", text |-> p.text]>>
      [] p.kind \in {"str", "text"} ->
            IF Strip(p.text) # <<>>
            THEN <<[kind |-> "text", text |-> Strip(p.text)]>>
            ELSE <<>>
      [] p.kind \in {"bytes", "inline_data"} ->
            IF p.ok THEN <<[kind |-> "bytes", text |-> <<>>]>> ELSE <<>>
      [] p.kind = "upload" ->
            IF p.ok THEN <<[kind |-> "file", text |-> <<>>]>> ELSE <<>>
      [] OTHER -> <<>>

RECURSIVE format_parts(_)
format_parts(ps) ==
    IF ps = <<>> THEN <<>> ELSE format_part(Head(ps)) \o format_parts(Tail(ps))

format_message(m) ==
    LET fromParts == format_parts(m.parts)
        text == Strip(m.content)
        parts == IF text # <<>> /\ fromParts = <<>>
                 THEN <<[kind |-> "text", text |-> text]>>
                 ELSE fromParts
    IN IF parts = <<>> THEN <<>> ELSE <<[role |-> role_map(m.role), parts |-> parts]>>

RECURSIVE format_messages(_)
format_messages(ms) ==
    IF ms = <<>> THEN <<>> ELSE format_message(Head(ms)) \o format_messages(Tail(ms))

\* The generation client seen by generate_reply: what generate_content does
\* when called with each of the three signatures, and the text of the response
\* it then returns (<<>>: a response without text).
\*   sig[1], text[1]: generate_content(model, contents, request_options={"timeout": t})
\*   sig[2], text[2]: generate_content(model, contents, timeout=t)
\*   sig[3], text[3]: generate_content(model, contents)
\* sig[k] is "ok" (returns), "TypeError" or "Error" (any other exception).
Outcomes == {"ok", "TypeError", "Error"}

\* What generate_reply ends in: the text it returns, or the GeminiAPIError it
\* raises; calls are the signatures it called generate_content with, in order.
GenOk(text, calls) ==
    [ok |-> TRUE, text |-> text, calls |-> calls, raised |-> "none", error |-> "none"]
GenErr(calls, error) ==
    [ok |-> FALSE, text |-> <<>>, calls |-> calls, raised |-> "GeminiAPIError",
     error |-> error]

\* The text that generate_reply makes of a response that came back (lines 272-276).
reply_text_unchecked(text, calls) == GenOk(text, calls)
reply_text(text, calls) ==
    IF Strip(text) = <<>> THEN GenErr(calls, "empty_response") ELSE GenOk(Strip(text), calls)

\* The call without a timeout (lines 256-264)
third_attempt(cl) ==
    LET calls == <<"request_options", "timeout", "plain">>
    IN IF cl.sig[3] = "ok" THEN reply_text(cl.text[3], calls) ELSE GenErr(calls, "api_error")

\* The call with timeout= (lines 247-267)
second_attempt_any_failure(cl) ==
    LET calls == <<"request_options", "timeout">>
    IN IF cl.sig[2] = "ok" THEN reply_text(cl.text[2], calls) ELSE third_attempt(cl)
second_attempt(cl) ==
    LET calls == <<"request_options", "timeout">>
    IN CASE cl.sig[2] = "ok" -> reply_text(cl.text[2], calls)
         [] cl.sig[2] = "TypeError" -> third_attempt(cl)
         [] OTHER -> GenErr(calls, "api_error")

\* The call with request_options= (lines 236-270)
first_attempt_any_failure(cl) ==
    LET calls == <<"request_options">>
    IN IF cl.sig[1] = "ok" THEN reply_text(cl.text[1], calls) ELSE second_attempt(cl)
first_attempt(cl) ==
    LET calls == <<"request_options">>
    IN CASE cl.sig[1] = "ok" -> reply_text(cl.text[1], calls)
         [] cl.sig[1] = "TypeError" -> second_attempt(cl)
         [] OTHER -> GenErr(calls, "api_error")

generate_reply(ms, cl) ==
    IF format_messages(ms) = <<>>
    THEN GenErr(<<>>, "empty_conversation")
    ELSE first_attempt(cl)


\* The fixed instruction message of generate_chat_title.
TitleInstruction == <<"Create a short, descriptive title">>

TitleMaxLen == 80

\* The title made of the reply text (lines 310-314).
clean_title(text) ==
    LET stripped == StripSet(Strip(FirstLine(text)), {".", ";", ":"})
        cut == IF Len(stripped) > TitleMaxLen
               THEN RStrip(SubSeq(stripped, 1, TitleMaxLen))
               ELSE stripped
    IN IF cut = <<>> THEN NewChat ELSE cut

generate_chat_title(user_message, assistant_message, cl) ==
    LET conversation == <<"User: ">> \o Strip(user_message)
                        \o <<"\n", "Assistant: ">> \o Strip(assistant_message)
        ms == << [role |-> "system", content |-> TitleInstruction, parts |-> <<>>],
                 [role |-> "user", content |-> conversation, parts |-> <<>>] >>
        r == generate_reply(ms, cl)
    IN IF r.ok
       THEN [ok |-> TRUE, title |-> clean_title(r.text), calls |-> r.calls]
       ELSE [ok |-> FALSE, title |-> <<>>, calls |-> r.calls]

(***************************************************************************)
(* chats/routes.py: values                                                 *)
(***************************************************************************)
Uids == {"u1", "u2"}
\* What a request may present as uid: a uid, or "" for a missing / empty one.
UidInputs == Uids \cup {""}
ChatIds == 1..MaxChats
FileIds == 1..MaxFiles

Hi == <<"H", "i">>

\* _to_iso: a stored datetime becomes its ISO string, anything else None.
to_iso(v) == IF v \in Nat THEN <<[iso |-> v]>> ELSE <<>>

serialize_chat(id, data) ==
    [id |-> id, uid |-> data.uid, title |-> data.title,
     systemPrompt |-> data.systemPrompt,
     createdAt |-> to_iso(data.createdAt), updatedAt |-> to_iso(data.updatedAt)]

serialize_message(id, data) ==
    [id |-> id, role |-> data.role, content |-> data.content,
     createdAt |-> to_iso(data.createdAt), fileIds |-> data.fileIds]

serialize_file(c, id, data) ==
    [id |-> id, fileName |-> data.fileName, mimeType |-> data.mimeType,
     size |-> data.size, createdAt |-> to_iso(data.createdAt),
     downloadPath |-> <<"chats", c, "files", id, "download">>,
     textPreview |-> data.textPreview]

\* The upload root and a path below it, as sequences of path segments.
UploadRoot == <<"srv", "uploads">>

\* (root / relative_path).resolve(): ".." segments are folded away.
RECURSIVE resolve(_, _)
resolve(acc, rest) ==
    IF rest = <<>> THEN acc
    ELSE IF Head(rest) = ".."
         THEN resolve(IF acc = <<>> THEN acc ELSE SubSeq(acc, 1, Len(acc) - 1), Tail(rest))
         ELSE resolve(Append(acc, Head(rest)), Tail(rest))

\* str(a).startswith(str(b)) for directory names a, b the model uses: every
\* name starts with itself, and "uploads_evil" starts with "uploads".
NameStartsWith(a, b) == a = b \/ (a = "uploads_evil" /\ b = "uploads")

\* str(candidate).startswith(str(root)): all segments of root but the last are
\* segments of candidate, and candidate goes on with a name that starts with
\* root's last segment.
PathStartsWith(candidate, root) ==
    /\ Len(candidate) >= Len(root)
    /\ \A i \in 1..(Len(root) - 1) : candidate[i] = root[i]
    /\ NameStartsWith(candidate[Len(root)], root[Len(root)])

\* _resolve_storage_path: <<path>>, or <<>> when it raises RuntimeError.
\* A relative path is [abs |-> is it absolute, segs |-> its segments].
resolve_storage_path(rel) ==
    LET candidate == IF rel.abs THEN resolve(<<>>, rel.segs)
                     ELSE resolve(UploadRoot, rel.segs)
    IN IF PathStartsWith(candidate, UploadRoot) THEN <<candidate>> ELSE <<>>

RECURSIVE JoinBlocks(_)
JoinBlocks(blocks) ==
    IF blocks = <<>> THEN <<>>
    ELSE IF Len(blocks) = 1 THEN Head(blocks)
    ELSE Head(blocks) \o <<"\n", "\n">> \o JoinBlocks(Tail(blocks))

\* The metadata a dict of fetched files holds for file id f: <<>> or <<meta>>.
FileInfo(files_data, f) ==
    IF \E m \in files_data : m.id = f
    THEN <<CHOOSE m \in files_data : m.id = f>>
    ELSE <<>>

attachment_block(info) ==
    LET header == <<"[Attached file: ">> \o info.fileName
                  \o <<" (", info.mimeType, ", ", ToString(info.size), " bytes)]">>
    IN IF info.textPreview # <<>>
       THEN header \o <<"\n">> \o info.textPreview[1]
       ELSE header

RECURSIVE attachment_blocks(_, _)
attachment_blocks(file_ids, files_data) ==
    IF file_ids = <<>> THEN <<>>
    ELSE LET info == FileInfo(files_data, Head(file_ids))
             rest == attachment_blocks(Tail(file_ids), files_data)
         IN IF info = <<>> THEN rest ELSE <<attachment_block(info[1])>> \o rest

compose_message_content(base_content, file_ids, files_data) ==
    LET blocks == attachment_blocks(file_ids, files_data)
        attachments_text == JoinBlocks(blocks)
    IN IF blocks = <<>> THEN base_content
       ELSE IF base_content # <<>>
            THEN base_content \o <<"\n", "\n">> \o attachments_text
            ELSE attachments_text

\* _get_files_metadata: the metadata documents of the chat for the ids given.
get_files_metadata(c, ids) == {m \in files[c] : m.id \in ids}

SeqToSet(s) == {s[i] : i \in 1..Len(s)}

\* _get_chat_for_user: what the lookup of chat c for uid yields.
\*   (None, None) -> "not_found"; (chat_ref, None) -> "forbidden";
\*   (chat_ref, data) -> "ok"; FirestoreAccessError -> "store_error".
get_chat_for_user_unchecked(c, uid, fail) ==
    IF fail = "chat_get" THEN "store_error"
    ELSE IF chats[c] = <<>> THEN "not_found"
    ELSE "ok"
get_chat_for_user(c, uid, fail) ==
    IF fail = "chat_get" THEN "store_error"
    ELSE IF chats[c] = <<>> THEN "not_found"
    ELSE IF chats[c][1].uid # uid THEN "forbidden"
    ELSE "ok"

\* A response: the request it answers (the route, the chat id, the uid and,
\* in req, the payload), its HTTP status and error code, its body, the calls
\* the handler made to the store, the disk and the generation client, in
\* order, the call that raised, if one did, and in titled the arguments of
\* generate_chat_title when it was called.
Response(op, c, uid, status, error, trace) ==
    [op |-> op, chat |-> c, uid |-> uid, req |-> <<>>, status |-> status, error |-> error,
     userMessage |-> <<>>, assistantMessage |-> <<>>, body |-> <<>>,
     trace |-> trace, fault |-> "none", titled |-> <<>>]

\* The same response, naming the call that raised while it was made.
Faulted(r, call) == [r EXCEPT !.fault = call]

ValidationError(op, c, uid) == Response(op, c, uid, 400, "validation_error", <<>>)
NotFound(op, c, uid, trace) == Response(op, c, uid, 404, "not_found", trace)
Forbidden(op, c, uid, trace) == Response(op, c, uid, 403, "forbidden", trace)
\* _firestore_error_response
StoreError(op, c, uid, trace) ==
    Faulted(Response(op, c, uid, 503, "firestore_service_unavailable", trace),
            trace[Len(trace)])

\* The early returns every chat route shares after _get_chat_for_user.
AccessDenied(op, c, uid, fail) ==
    LET access == get_chat_for_user(c, uid, fail)
    IN CASE access = "store_error" -> StoreError(op, c, uid, <<"chat_get">>)
         [] access = "not_found" -> NotFound(op, c, uid, <<"chat_get">>)
         [] OTHER -> Forbidden(op, c, uid, <<"chat_get">>)


WithBody(r, body) == [r EXCEPT !.body = <<body>>]

\* No request is being answered.
NoResponse == Response("none", 0, "", 0, "none", <<>>)

\* The documents of a set, each with a distinct createdAt, ordered by createdAt.
RECURSIVE OrderByCreatedAt(_)
OrderByCreatedAt(docs) ==
    IF docs = {} THEN <<>>
    ELSE LET first == CHOOSE d \in docs : \A e \in docs : d.createdAt <= e.createdAt
         IN <<first>> \o OrderByCreatedAt(docs \ {first})

\* The chats of a set of ids, most recently updated first.
RECURSIVE OrderByUpdatedAtDesc(_)
OrderByUpdatedAtDesc(ids) ==
    IF ids = {} THEN <<>>
    ELSE LET first == CHOOSE c \in ids :
                        \A d \in ids : chats[c][1].updatedAt >= chats[d][1].updatedAt
         IN <<first>> \o OrderByUpdatedAtDesc(ids \ {first})

(***************************************************************************)
(* chats/routes.py: the handlers.  A handler is an operator of the request *)
(* and of the faults of its environment; it yields an outcome: the         *)
(* response and the store and disk it leaves.                              *)
(***************************************************************************)
\* The outcome of a handler that answers r and changes nothing.
Unchanged_read_touches(r) ==
    [resp |-> r,
     chats |-> [c \in DOMAIN chats |->
                  IF chats[c] = <<>> THEN <<>>
                  ELSE <<[chats[c][1] EXCEPT !.updatedAt = clock + 1]>>],
     messages |-> messages, files |-> files, disk |-> disk,
     clock |-> clock, nextChat |-> nextChat, nextFile |-> nextFile]
Unchanged(r) ==
    [resp |-> r, chats |-> chats, messages |-> messages, files |-> files, disk |-> disk,
     clock |-> clock, nextChat |-> nextChat, nextFile |-> nextFile]

(***************************************************************************)
(* POST /chats                                                             *)
(***************************************************************************)
create_chat_data(uid, title, system_prompt, now) ==
    [uid |-> uid,
     title |-> Strip(IF title = <<>> \/ title[1] = <<>> THEN NewChat ELSE title[1]),
     systemPrompt |-> system_prompt,
     createdAt |-> now, updatedAt |-> now]

create_chat(uid, title, system_prompt, fail) ==
    LET now == clock + 1
        id == nextChat + 1
        chat_data == create_chat_data(uid, title, system_prompt, now)
    IN IF uid = ""
       THEN Unchanged(ValidationError("create_chat", 0, uid))
       ELSE IF fail = "chat_set"
       THEN Unchanged(StoreError("create_chat", 0, uid, <<"chat_set">>))
       ELSE [Unchanged(WithBody(Response("create_chat", id, uid, 201, "none", <<"chat_set">>),
                                serialize_chat(id, chat_data)))
               EXCEPT !.chats = [chats EXCEPT ![id] = <<chat_data>>],
                      !.clock = now,
                      !.nextChat = id]

(***************************************************************************)
(* GET /chats?uid=                                                         *)
(***************************************************************************)
list_chats(uid, fail) ==
    IF uid = "" THEN Unchanged(ValidationError("list_chats", 0, uid))
    ELSE IF fail = "chats_stream"
    THEN Unchanged(StoreError("list_chats", 0, uid, <<"chats_stream">>))
    ELSE LET mine == {c \in ChatIds : chats[c] # <<>> /\ chats[c][1].uid = uid}
             order == OrderByUpdatedAtDesc(mine)
         IN Unchanged(WithBody(
                Response("list_chats", 0, uid, 200, "none", <<"chats_stream">>),
                [i \in 1..Len(order) |-> serialize_chat(order[i], chats[order[i]][1])]))

(***************************************************************************)
(* GET /chats/<chat_id>?uid=                                               *)
(***************************************************************************)
\* The file ids the messages of a chat name.
MessageFileIds(ms) == UNION {SeqToSet(ms[i].fileIds) : i \in 1..Len(ms)}

enriched_message(m, files_data) ==
    serialize_message(m.id,
        [m EXCEPT !.content = compose_message_content(m.content, m.fileIds, files_data)])

get_chat(c, uid, fail) ==
    IF uid = "" THEN Unchanged(ValidationError("get_chat", c, uid))
    ELSE IF get_chat_for_user(c, uid, fail) # "ok"
    THEN Unchanged(AccessDenied("get_chat", c, uid, fail))
    ELSE IF fail = "messages_stream"
    THEN Unchanged(StoreError("get_chat", c, uid, <<"chat_get", "messages_stream">>))
    ELSE LET ms == messages[c]
             file_ids == MessageFileIds(ms)
             files_data == get_files_metadata(c, file_ids)
             file_docs == OrderByCreatedAt(files[c])
             read == IF file_ids # {} THEN <<"chat_get", "messages_stream", "files_get">>
                     ELSE <<"chat_get", "messages_stream">>
         IN IF file_ids # {} /\ fail = "files_get"
            THEN Unchanged(StoreError("get_chat", c, uid, read))
            ELSE IF fail = "files_stream"
            THEN Unchanged(StoreError("get_chat", c, uid, read \o <<"files_stream">>))
            ELSE Unchanged(WithBody(
                   Response("get_chat", c, uid, 200, "none", read \o <<"files_stream">>),
                   [chat |-> serialize_chat(c, chats[c][1]),
                    messages |-> [i \in 1..Len(ms) |-> enriched_message(ms[i], files_data)],
                    files |-> [i \in 1..Len(file_docs) |->
                                  serialize_file(c, file_docs[i].id, file_docs[i])]]))

(***************************************************************************)
(* PATCH /chats/<chat_id>                                                  *)
(***************************************************************************)
\* A payload of update_chat: whether it has the key "title" and its value,
\* whether it has the key "systemPrompt" and its value.  The model sends {}
\* and {"title": None, "systemPrompt": "S"}.
UpdatePayloads ==
    {[hasTitle |-> FALSE, title |-> <<>>, hasPrompt |-> FALSE, prompt |-> <<>>],
     [hasTitle |-> TRUE, title |-> <<>>, hasPrompt |-> TRUE, prompt |-> <<<<"S">>>>]}

\* updates of update_chat applied to the stored document (chat_ref.update)
chat_updates(data, payload, now) ==
    [data EXCEPT
       !.title = IF payload.hasTitle
                 THEN Strip(IF payload.title = <<>> THEN <<>> ELSE payload.title[1])
                 ELSE @,
       !.systemPrompt = IF payload.hasPrompt THEN payload.prompt ELSE @,
       !.updatedAt = now]

update_chat(c, uid, payload, fail) ==
    LET now == clock + 1
        op == "update_chat"
    IN IF uid = "" THEN Unchanged(ValidationError(op, c, uid))
       ELSE IF get_chat_for_user(c, uid, fail) # "ok"
       THEN Unchanged(AccessDenied(op, c, uid, fail))
       ELSE IF ~payload.hasTitle /\ ~payload.hasPrompt
       THEN Unchanged(Response(op, c, uid, 400, "validation_error", <<"chat_get">>))
       ELSE IF fail = "chat_update"
       THEN Unchanged(StoreError(op, c, uid, <<"chat_get", "chat_update">>))
       ELSE LET updated == chat_updates(chats[c][1], payload, now)
            IN [Unchanged(WithBody(Response(op, c, uid, 200, "none",
                                            <<"chat_get", "chat_update">>),
                                   serialize_chat(c, updated)))
                  EXCEPT !.chats = [chats EXCEPT ![c] = <<updated>>],
                         !.clock = now]

(***************************************************************************)
(* DELETE /chats/<chat_id>                                                 *)
(***************************************************************************)
\* What batch.commit() makes of an outcome: the batch holds a delete for
\* every message of the chat and one for the chat document.
batch_commit_chat_only(out, c) == [out EXCEPT !.chats = [chats EXCEPT ![c] = <<>>]]
batch_commit_first_only(out, c) ==
    [out EXCEPT !.chats = [chats EXCEPT ![c] = <<>>],
                !.messages = [messages EXCEPT ![c] = IF @ = <<>> THEN <<>> ELSE Tail(@)]]
batch_commit(out, c) ==
    [out EXCEPT !.chats = [chats EXCEPT ![c] = <<>>],
                !.messages = [messages EXCEPT ![c] = <<>>]]

delete_chat(c, uid, fail) ==
    LET op == "delete_chat"
        calls == <<"chat_get", "messages_stream", "batch_commit">>
    IN IF uid = "" THEN Unchanged(ValidationError(op, c, uid))
       ELSE IF get_chat_for_user(c, uid, fail) # "ok"
       THEN Unchanged(AccessDenied(op, c, uid, fail))
       ELSE IF fail = "messages_stream"
       THEN Unchanged(StoreError(op, c, uid, <<"chat_get", "messages_stream">>))
       ELSE IF fail = "batch_commit"
       THEN Unchanged(StoreError(op, c, uid, calls))
       ELSE batch_commit(Unchanged(Response(op, c, uid, 204, "none", calls)), c)


(***************************************************************************)
(* POST /chats/<chat_id>/files                                             *)
(***************************************************************************)
\* current_app.config["MAX_UPLOAD_SIZE"], 10 * 1024 * 1024
MaxUploadSize == 10485760

\* _extract_text_snippet reads at most limit + 1 characters
SnippetLimit == 4000

IsTextualMime(mime) == mime \in {"text/plain", "text/markdown", "application/json"}

\* _extract_text_snippet of a stored file whose decoded content is text
extract_text_snippet(text, mime) ==
    LET read == SubSeq(text, 1, IF Len(text) < SnippetLimit + 1 THEN Len(text)
                                 ELSE SnippetLimit + 1)
        snippet == IF Len(read) > SnippetLimit THEN SubSeq(read, 1, SnippetLimit) ELSE read
    IN IF ~IsTextualMime(mime) THEN <<>>
       ELSE IF Strip(snippet) = <<>> THEN <<>> ELSE <<Strip(snippet)>>

\* werkzeug's secure_filename on the names the model uploads: a name made
\* only of dots and separators has no safe character left.
secure_filename(name) == IF name = ".." THEN "" ELSE name

\* destination, below the upload root: <root>/<chat id>/<file id>_<filename>
Destination(c, file_id) == UploadRoot \o <<ToString(c), ToString(file_id)>>

\* str(destination.relative_to(upload_root))
StoragePath(c, file_id) == [abs |-> FALSE, segs |-> <<ToString(c), ToString(file_id)>>]

\* The size upload_file reads back after saving (lines 542-545).
saved_size(f) == IF f.statOk THEN f.size ELSE 0

file_data(c, file_id, uid, f, now) ==
    LET filename == IF secure_filename(f.filename) = "" THEN "upload"
                    ELSE secure_filename(f.filename)
    IN [id |-> file_id, uid |-> uid, fileName |-> <<filename>>, mimeType |-> f.mime,
        size |-> saved_size(f), storagePath |-> StoragePath(c, file_id),
        createdAt |-> now, textPreview |-> extract_text_snippet(f.text, f.mime)]

\* file.save(destination) that returns, and destination.unlink(missing_ok=True)
save_file(d, path) == d \cup {path}
unlink_skipped(d, path) == d
unlink(d, path) == d \ {path}

\* What file.save(destination) leaves on the disk when it raises.
failed_save(d, path, f) == IF f.save = "fail_partial" THEN d \cup {path} ELSE d

\* The cleanup of a failed save (lines 535-536).
cleanup_failed_save_skipped(d, path) == d
cleanup_failed_save(d, path) == IF path \in d THEN unlink(d, path) ELSE d

\* The declared content-length is over the maximum (line 514).
declared_too_large(f) == f.declared # 0 /\ f.declared > MaxUploadSize

\* The bytes written are none, or over the maximum (lines 547, 554).
written_rejected(size) == size = 0 \/ size > MaxUploadSize

\* upload_file once the chat is found to be the caller's (lines 505-589).
upload_owned(c, uid, f, fail) ==
    LET file_id == nextFile + 1
        now == clock + 1
        op == "upload_file"
        destination == Destination(c, file_id)
        data == file_data(c, file_id, uid, f, now)
        saved == save_file(disk, destination)
        withFile == [files EXCEPT ![c] = @ \cup {data}]
        touched == [chats EXCEPT ![c] = <<[@[1] EXCEPT !.updatedAt = now]>>]
    IN IF f.filename = ""
       THEN Unchanged(Response(op, c, uid, 400, "validation_error", <<"chat_get">>))
       ELSE IF declared_too_large(f)
       THEN Unchanged(Response(op, c, uid, 400, "validation_error", <<"chat_get">>))
       ELSE IF f.save # "ok"
       THEN [Unchanged(Faulted(Response(op, c, uid, 500, "upload_failed",
                                        <<"chat_get", "save">>), "save"))
               EXCEPT !.disk = cleanup_failed_save(failed_save(disk, destination, f),
                                                   destination)]
       ELSE IF written_rejected(saved_size(f))
       THEN [Unchanged(Response(op, c, uid, 400, "validation_error", <<"chat_get", "save">>))
               EXCEPT !.disk = unlink(saved, destination)]
       ELSE IF fail = "file_set"
       THEN [Unchanged(StoreError(op, c, uid, <<"chat_get", "save", "file_set">>))
               EXCEPT !.disk = unlink(saved, destination)]
       ELSE IF fail = "chat_update"
       THEN [Unchanged(StoreError(op, c, uid, <<"chat_get", "save", "file_set", "chat_update">>))
               EXCEPT !.files = withFile,
                      !.disk = unlink(saved, destination),
                      !.clock = now,
                      !.nextFile = file_id]
       ELSE [Unchanged(WithBody(Response(op, c, uid, 201, "none",
                                         <<"chat_get", "save", "file_set", "chat_update">>),
                                serialize_file(c, file_id, data)))
               EXCEPT !.files = withFile,
                      !.chats = touched,
                      !.disk = saved,
                      !.clock = now,
                      !.nextFile = file_id]

upload_file(c, uid, multipart, f, fail) ==
    IF ~multipart THEN Unchanged(ValidationError("upload_file", c, uid))
    ELSE IF uid = "" THEN Unchanged(ValidationError("upload_file", c, uid))
    ELSE IF get_chat_for_user(c, uid, fail) # "ok"
    THEN Unchanged(AccessDenied("upload_file", c, uid, fail))
    ELSE upload_owned(c, uid, f, fail)

(***************************************************************************)
(* GET /chats/<chat_id>/files?uid=                                         *)
(***************************************************************************)
list_files(c, uid, fail) ==
    IF uid = "" THEN Unchanged(ValidationError("list_files", c, uid))
    ELSE IF get_chat_for_user(c, uid, fail) # "ok"
    THEN Unchanged(AccessDenied("list_files", c, uid, fail))
    ELSE IF fail = "files_stream"
    THEN Unchanged(StoreError("list_files", c, uid, <<"chat_get", "files_stream">>))
    ELSE LET file_docs == OrderByCreatedAt(files[c])
         IN Unchanged(WithBody(
                Response("list_files", c, uid, 200, "none", <<"chat_get", "files_stream">>),
                [i \in 1..Len(file_docs) |->
                    serialize_file(c, file_docs[i].id, file_docs[i])]))

(***************************************************************************)
(* GET /chats/<chat_id>/files/<file_id>/download?uid=                      *)
(***************************************************************************)
\* data.get("storagePath") that is missing or empty (line 672)
NoStoragePath == [abs |-> FALSE, segs |-> <<>>]

download_file(c, file_id, uid, fail) ==
    LET op == "download_file"
        snapshot == FileInfo(files[c], file_id)
        absolute_path == resolve_storage_path(snapshot[1].storagePath)
    IN IF uid = "" THEN Unchanged(ValidationError(op, c, uid))
       ELSE IF get_chat_for_user(c, uid, fail) # "ok"
       THEN Unchanged(AccessDenied(op, c, uid, fail))
       ELSE IF fail = "file_get"
       THEN Unchanged(StoreError(op, c, uid, <<"chat_get", "file_get">>))
       ELSE IF snapshot = <<>>
       THEN Unchanged(NotFound(op, c, uid, <<"chat_get", "file_get">>))
       ELSE IF snapshot[1].storagePath = NoStoragePath
       THEN Unchanged(NotFound(op, c, uid, <<"chat_get", "file_get">>))
       ELSE IF absolute_path = <<>>
       THEN Unchanged(NotFound(op, c, uid, <<"chat_get", "file_get">>))
       ELSE IF absolute_path[1] \notin disk
       THEN Unchanged(NotFound(op, c, uid, <<"chat_get", "file_get">>))
       ELSE Unchanged(WithBody(
              Response(op, c, uid, 200, "none", <<"chat_get", "file_get", "send_file">>),
              [path |-> absolute_path[1],
               download_name |-> snapshot[1].fileName,
               mimetype |-> snapshot[1].mimeType]))


(***************************************************************************)
(* POST /chats/<chat_id>/messages                                          *)
(***************************************************************************)
\* (payload.get("role") or "user").lower()
requested_role(raw) ==
    CASE raw = "" -> "user"
      [] raw = "System" -> "system"
      [] raw = "Assistant" -> "assistant"
      [] OTHER -> raw

\* One entry of payload["fileIds"]: a string holding the file id `id`, with
\* blanks around it when padded (id 0: a string with nothing but blanks), or
\* something that is no string.
FileIdEntry(id, padded) == [isStr |-> TRUE, id |-> id, padded |-> padded]
NotAString == [isStr |-> FALSE, id |-> 0, padded |-> FALSE]

\* fid.strip(): the id without the blanks around it (0: the empty string)
strip_file_id(e) == e.id

\* The loop over raw_file_ids (lines 712-723): blank entries are dropped and an
\* id is kept once; <<>> stands for the early return on an entry that is no string.
RECURSIVE clean_file_ids_repeats(_, _)
clean_file_ids_repeats(items, acc) ==
    IF items = <<>> THEN <<acc>>
    ELSE IF ~Head(items).isStr THEN <<>>
    ELSE LET fid_clean == strip_file_id(Head(items))
         IN IF fid_clean = 0 THEN clean_file_ids_repeats(Tail(items), acc)
            ELSE clean_file_ids_repeats(Tail(items), Append(acc, fid_clean))
RECURSIVE clean_file_ids(_, _)
clean_file_ids(items, acc) ==
    IF items = <<>> THEN <<acc>>
    ELSE IF ~Head(items).isStr THEN <<>>
    ELSE LET fid_clean == strip_file_id(Head(items))
         IN IF fid_clean = 0 THEN clean_file_ids(Tail(items), acc)
            ELSE IF fid_clean \in SeqToSet(acc) THEN clean_file_ids(Tail(items), acc)
            ELSE clean_file_ids(Tail(items), Append(acc, fid_clean))

\* file_ids of add_message (lines 709-730): <<list>>, or <<>> for a 400.
parse_file_ids(raw) == IF raw.isList THEN clean_file_ids(raw.items, <<>>) ELSE <<>>

\* history_messages of add_message (lines 845-876): the system prompt, if the
\* chat has one, then every stored message with its attachment blocks.
history_messages(chat_data, ms, files_cache) ==
    (IF chat_data.systemPrompt # <<>> /\ chat_data.systemPrompt[1] # <<>>
     THEN <<[role |-> "system", content |-> chat_data.systemPrompt[1], parts |-> <<>>]>>
     ELSE <<>>)
    \o [i \in 1..Len(ms) |->
          [role |-> ms[i].role,
           content |-> compose_message_content(ms[i].content, ms[i].fileIds, files_cache),
           parts |-> <<>>]]

\* should_update_title (lines 908-910)
should_update_title_default_only(chat_data, content) ==
    Lower(Strip(chat_data.title)) \in {<<>>, NewChatLower}
should_update_title(chat_data, content) ==
    LET chat_title == Strip(chat_data.title)
    IN Lower(chat_title) \in {<<>>, NewChatLower} \/ chat_title = content

WithMessages(r, user, assistant) ==
    [r EXCEPT !.userMessage = user, !.assistantMessage = assistant]

\* The store after a message document is set (lines 816, 901), after the
\* chat_ref.update that follows it (lines 818, 902), and after the update of
\* the title (lines 926-929).
message_set_overwrites(ms, c, data) ==
    [ms EXCEPT ![c] = IF @ = <<>> THEN <<data>> ELSE [@ EXCEPT ![Len(@)] = data]]
message_set(ms, c, data) == [ms EXCEPT ![c] = Append(@, data)]
chat_touch_recreated(cs, c, now) ==
    [cs EXCEPT ![c] = <<[@[1] EXCEPT !.updatedAt = now, !.createdAt = now]>>]
chat_touch(cs, c, now) == [cs EXCEPT ![c] = <<[@[1] EXCEPT !.updatedAt = now]>>]
title_update(cs, c, title, now) ==
    [cs EXCEPT ![c] = <<[@[1] EXCEPT !.title = title, !.updatedAt = now]>>]

\* generate_reply raised (lines 880-890): the response r is returned, and what
\* was stored before the call stays stored.
reply_failed_rollback(stored, r) == Unchanged(r)
reply_failed(stored, r) == [stored EXCEPT !.resp = r]

\* The automatic title (lines 913-934): the title is generated and written
\* to the chat; a failure of either is logged, and nothing else is done.
\*   done: the outcome with both messages stored
retitle_rollback(done, c, titled, fail, now) ==
    IF ~titled.ok \/ fail = "title_update"
    THEN [out |-> [done EXCEPT !.chats = chats, !.messages = messages],
          calls |-> <<"generate_chat_title">>,
          fault |-> IF titled.ok THEN "title_update" ELSE "generate_chat_title"]
    ELSE [out |-> [done EXCEPT !.chats = title_update(@, c, titled.title, now)],
          calls |-> <<"generate_chat_title", "title_update">>, fault |-> "none"]
retitle(done, c, titled, fail, now) ==
    IF ~titled.ok
    THEN [out |-> done, calls |-> <<"generate_chat_title">>, fault |-> "generate_chat_title"]
    ELSE IF fail = "title_update"
    THEN [out |-> done, calls |-> <<"generate_chat_title", "title_update">>,
          fault |-> "title_update"]
    ELSE [out |-> [done EXCEPT !.chats = title_update(@, c, titled.title, now)],
          calls |-> <<"generate_chat_title", "title_update">>, fault |-> "none"]

\* user_prompt_for_title (line 914): the content of the message sent or, when
\* it has none, the content the history gives the last message.
user_prompt_for_title_first(content, history) == history[1].content
user_prompt_for_title(content, history) ==
    IF content # <<>> THEN content ELSE history[Len(history)].content

\* The response with the arguments generate_chat_title was called with.
Titled(r, user_message, assistant_message) ==
    [r EXCEPT !.titled = <<[user_message |-> user_message,
                            assistant_message |-> assistant_message]>>]

\* add_message from the call of generate_reply on (lines 878-944).
\*   stored: the outcome so far (the user message stored, the chat touched)
\*   calls:  the calls made so far
reply_and_title(c, uid, content, user_data, chat_data, history, stored, calls, fail, cl, clTitle) ==
    LET op == "add_message"
        user == <<serialize_message(user_data.id, user_data)>>
        asked == calls \o <<"generate_reply">>
        reply == generate_reply(history, cl)
        ai_now == user_data.createdAt + 1
        ai_data == [id |-> user_data.id + 1, uid |-> uid, role |-> "assistant",
                    content |-> reply.text, createdAt |-> ai_now, fileIds |-> <<>>]
        assistant == <<serialize_message(ai_data.id, ai_data)>>
        ai_stored == [stored EXCEPT !.messages = message_set(@, c, ai_data),
                                    !.clock = ai_now]
        done == [ai_stored EXCEPT !.chats = chat_touch(@, c, ai_now)]
        prompt == user_prompt_for_title(content, history)
        titled == generate_chat_title(prompt, reply.text, clTitle)
        retitled == retitle(done, c, titled, fail, ai_now)
        written == asked \o <<"ai_set", "ai_update">>
        created(trace) ==
            WithMessages(Response(op, c, uid, 201, "none", trace), user, assistant)
    IN IF ~reply.ok
       THEN reply_failed(stored,
               Faulted(WithBody(WithMessages(Response(op, c, uid, 502, "ai_error", asked),
                                             user, <<>>),
                                [message |-> reply.error]),
                       "generate_reply"))
       ELSE IF fail = "ai_set"
       THEN [stored EXCEPT !.resp = StoreError(op, c, uid, asked \o <<"ai_set">>)]
       ELSE IF fail = "ai_update"
       THEN [ai_stored EXCEPT !.resp = StoreError(op, c, uid, written)]
       ELSE IF ~should_update_title(chat_data, content)
       THEN [done EXCEPT !.resp = created(written)]
       ELSE [retitled.out EXCEPT
               !.resp = Titled(Faulted(created(written \o retitled.calls), retitled.fault),
                               prompt, reply.text)]

\* `if not gemini_api_key` (lines 824-825)
configured_always(key) == TRUE
configured(key) == key # <<>>

\* The fetched attachments that another uid uploaded (line 788)
unauthorised_files_none(attachments_data, uid) == {}
unauthorised_files(attachments_data, uid) ==
    {m.id : m \in {a \in attachments_data : a.uid # uid}}

\* add_message once the chat is found to be the caller's (lines 768-876).
persist_and_reply(c, uid, content, role, file_ids, fail, cl, clTitle) ==
    LET op == "add_message"
        chat_data == chats[c][1]
        attachments_data == get_files_metadata(c, SeqToSet(file_ids))
        missing == SelectSeq(file_ids, LAMBDA f : FileInfo(attachments_data, f) = <<>>)
        unauthorised == unauthorised_files(attachments_data, uid)
        now == clock + 1
        user_data == [id |-> Len(messages[c]) + 1, uid |-> uid, role |-> role,
                      content |-> content, createdAt |-> now, fileIds |-> file_ids]
        user == <<serialize_message(user_data.id, user_data)>>
        checked == IF file_ids # <<>> THEN <<"chat_get", "files_get">> ELSE <<"chat_get">>
        written == checked \o <<"user_set", "user_update">>
        user_stored(r) == [Unchanged(r) EXCEPT !.messages = message_set(@, c, user_data),
                                               !.clock = now]
        stored(r) == [user_stored(r) EXCEPT !.chats = chat_touch(@, c, now)]
        history_records == message_set(messages, c, user_data)[c]
        additional_file_ids == MessageFileIds(history_records) \ SeqToSet(file_ids)
        files_cache == attachments_data \cup get_files_metadata(c, additional_file_ids)
        history == history_messages(chat_data, history_records, files_cache)
        read == written \o <<"history_stream">>
               \o (IF additional_file_ids # {} THEN <<"extra_files_get">> ELSE <<>>)
    IN IF file_ids # <<>> /\ fail = "files_get"
       THEN Unchanged(StoreError(op, c, uid, checked))
       ELSE IF missing # <<>>
       THEN Unchanged(WithBody(Response(op, c, uid, 400, "validation_error", checked),
                               [missingFileIds |-> missing]))
       ELSE IF unauthorised # {}
       THEN Unchanged(Forbidden(op, c, uid, checked))
       ELSE IF fail = "user_set"
       THEN Unchanged(StoreError(op, c, uid, checked \o <<"user_set">>))
       ELSE IF fail = "user_update"
       THEN user_stored(StoreError(op, c, uid, written))
       ELSE IF ~configured(apiKey)
       THEN stored(WithMessages(Response(op, c, uid, 503, "not_configured", written),
                                user, <<>>))
       ELSE IF fail = "history_stream"
       THEN stored(StoreError(op, c, uid, written \o <<"history_stream">>))
       ELSE IF additional_file_ids # {} /\ fail = "extra_files_get"
       THEN stored(StoreError(op, c, uid, read))
       ELSE reply_and_title(c, uid, content, user_data, chat_data, history,
                            stored(NoResponse), read, fail, cl, clTitle)

\* The checks add_message makes of its payload (lines 706-751): the response
\* they end in, or <<>> when the payload passes.
validate_message_any_role(c, uid, content, role, file_ids) ==
    IF file_ids = <<>> THEN <<ValidationError("add_message", c, uid)>>
    ELSE IF uid = "" THEN <<ValidationError("add_message", c, uid)>>
    ELSE IF content = <<>> /\ file_ids[1] = <<>>
    THEN <<ValidationError("add_message", c, uid)>>
    ELSE <<>>
validate_message_lenient(c, uid, content, role, file_ids) ==
    IF file_ids = <<>> THEN <<ValidationError("add_message", c, uid)>>
    ELSE IF uid = "" THEN <<ValidationError("add_message", c, uid)>>
    ELSE IF role \notin {"user", "system"} THEN <<ValidationError("add_message", c, uid)>>
    ELSE <<>>
validate_message(c, uid, content, role, file_ids) ==
    IF file_ids = <<>> THEN <<ValidationError("add_message", c, uid)>>
    ELSE IF uid = "" THEN <<ValidationError("add_message", c, uid)>>
    ELSE IF content = <<>> /\ file_ids[1] = <<>>
    THEN <<ValidationError("add_message", c, uid)>>
    ELSE IF role \notin {"user", "system"} THEN <<ValidationError("add_message", c, uid)>>
    ELSE <<>>

add_message(c, uid, payload, fail, cl, clTitle) ==
    LET content == Strip(payload.content)
        role == requested_role(payload.role)
        file_ids == parse_file_ids(payload.fileIds)
        invalid == validate_message(c, uid, content, role, file_ids)
    IN IF invalid # <<>> THEN Unchanged(invalid[1])
       ELSE IF get_chat_for_user(c, uid, fail) # "ok"
       THEN Unchanged(AccessDenied("add_message", c, uid, fail))
       ELSE persist_and_reply(c, uid, content, role, file_ids[1], fail, cl, clTitle)


(***************************************************************************)
(* The requests the model sends.                                           *)
(***************************************************************************)
\* The payloads of create_chat: {"uid"} alone, or with a title and a prompt.
CreatePayloads ==
    {[title |-> <<>>, systemPrompt |-> <<>>],
     [title |-> <<Hi>>, systemPrompt |-> <<<<"S">>>>]}

\* A file id no upload has been given
UnknownFileId == MaxFiles + 1

\* payload.get("fileIds"): missing, a list, or a value that is no list
NoFileIds == [isList |-> TRUE, items |-> <<>>]
FileIdList(items) == [isList |-> TRUE, items |-> items]
NotAList == [isList |-> FALSE, items |-> <<>>]

\* A payload of add_message
Message(content, role, fileIds) == [content |-> content, role |-> role, fileIds |-> fileIds]

\* The payloads of add_message the model sends: " Hi" under each role; nothing
\* but blanks; no text and blank ids; no text and a file named twice; an id
\* that is no string; fileIds that is no list; a file that does not exist.
MessagePayloads ==
    {Message(<<" ", "H", "i">>, r, NoFileIds) : r \in {"", "System", "Assistant"}}
    \cup {Message(<<" ">>, "", NoFileIds),
          Message(<<>>, "", FileIdList(<<FileIdEntry(0, TRUE), FileIdEntry(0, FALSE)>>)),
          Message(<<" ", "H", "i">>, "", FileIdList(<<NotAString>>)),
          Message(<<" ", "H", "i">>, "", NotAList),
          Message(<<" ", "H", "i">>, "", FileIdList(<<FileIdEntry(UnknownFileId, FALSE)>>))}
    \cup {Message(<<>>, "",
                  FileIdList(<<FileIdEntry(f, TRUE), FileIdEntry(0, FALSE),
                               FileIdEntry(f, FALSE)>>)) : f \in FileIds}

\* An upload: the multipart part named "file" and what happens to it.
\*   filename  file.filename           ("" when the part is missing or unnamed)
\*   declared  request.content_length  (0 when it is absent)
\*   save      what file.save() does: "ok", "fail_partial" (raises, leaving a
\*             partly written file), "fail_nothing" (raises before creating it)
\*   size      the bytes file.save() writes;  statOk: destination.stat() works
Upload(filename, declared, save, size, statOk, mime) ==
    [filename |-> filename, declared |-> declared, save |-> save, size |-> size,
     statOk |-> statOk, mime |-> mime, text |-> <<" ", "d">>]

UploadFiles ==
    {Upload("a.txt", d, "ok", n, TRUE, "text/plain") :
        d \in {0, MaxUploadSize + 1}, n \in {0, 1, MaxUploadSize + 1}}
    \cup {Upload("", 1, "ok", 1, TRUE, "text/plain"),
          Upload("..", 1, "ok", MaxUploadSize, TRUE, "image/png"),
          Upload("a.txt", 1, "fail_partial", 1, TRUE, "text/plain"),
          Upload("a.txt", 1, "fail_nothing", 1, TRUE, "text/plain"),
          Upload("a.txt", 1, "ok", 1, FALSE, "text/plain")}

\* A client whose three signatures answer with the same text
Client(sig, text) == [sig |-> sig, text |-> <<text, text, text>>]

\* The generation clients: one that takes the first signature, one that takes
\* only the third, one whose response is blank, one that fails.
FirstSignatureClient == Client(<<"ok", "ok", "ok">>, <<"O", "k">>)
ReplyClients ==
    {FirstSignatureClient,
     [sig |-> <<"TypeError", "TypeError", "ok">>, text |-> <<<<"x">>, <<"y">>, <<" ", "O", "k">>>>],
     Client(<<"ok", "ok", "ok">>, <<" ">>),
     Client(<<"Error", "ok", "ok">>, <<"O", "k">>)}
\* ... and for the title: one that answers "Hi." and a second line, one that
\* answers ".", one that fails.
PlainTitleClient == Client(<<"ok", "ok", "ok">>, <<"H", "i", ".", "\n", "x">>)
TitleClients ==
    {PlainTitleClient,
     Client(<<"TypeError", "ok", "ok">>, <<".">>),
     Client(<<"TypeError", "Error", "ok">>, <<"H", "i">>)}

\* The calls of a handler that go to the document store, and those of them an
\* outcome made: a call that is not made cannot fail.
StoreCalls ==
    {"chat_set", "chats_stream", "chat_get", "messages_stream", "files_get", "files_stream",
     "chat_update", "batch_commit", "file_set", "file_get", "user_set", "user_update",
     "history_stream", "extra_files_get", "ai_set", "ai_update", "title_update"}
Calls(out) == SeqToSet(out.resp.trace)
Faults(out) == {"none"} \cup (Calls(out) \cap StoreCalls)

(***************************************************************************)
(* The chat routes as a state machine: the application handles one request *)
(* at a time, and a response is sent before the next request is taken.     *)
(***************************************************************************)
InitChats ==
    /\ chats = [c \in ChatIds |-> <<>>]
    /\ messages = [c \in ChatIds |-> <<>>]
    /\ files = [c \in ChatIds |-> {}]
    /\ disk = {}
    /\ clock = 0
    /\ nextChat = 0
    /\ nextFile = 0
    /\ apiKey \in {<<>>, <<"key">>}
    /\ resp = NoResponse

InitNotes ==
    /\ notes = [n \in 1..MaxNotes |-> <<>>]
    /\ nextNote = 0
    /\ noteClock = 0

InitGen == gen = <<>>

InitUsers ==
    /\ users = [u \in Uids |-> <<>>]
    /\ userClock = 0

Init == InitChats /\ InitNotes /\ InitGen /\ InitUsers

\* The outcome of a handler, with the payload of the request in its response.
Answering(req, out) == [out EXCEPT !.resp.req = <<req>>]

\* A request is taken and handled with the outcome out.  The chat routes and
\* the notes service keep disjoint collections and no handler of one reads the
\* other's: a run of the model exercises one of the two.
Handle(out) ==
    /\ resp = NoResponse
    /\ nextNote = 0
    /\ \E o \in {out} :
         /\ resp' = o.resp
         /\ chats' = o.chats
         /\ messages' = o.messages
         /\ files' = o.files
         /\ disk' = o.disk
         /\ clock' = o.clock
         /\ nextChat' = o.nextChat
         /\ nextFile' = o.nextFile
    /\ UNCHANGED <<apiKey, noteVars, gen, userVars>>

SendResponse ==
    /\ resp # NoResponse
    /\ resp' = NoResponse
    /\ UNCHANGED <<chatVars, noteVars, gen, userVars>>

CreateChat ==
    /\ resp = NoResponse
    /\ nextChat < MaxChats
    /\ clock < MaxClock
    /\ \E uid \in UidInputs, payload \in CreatePayloads :
         \E fail \in Faults(create_chat(uid, payload.title, payload.systemPrompt, "none")) :
            Handle(Answering(payload, create_chat(uid, payload.title, payload.systemPrompt, fail)))

ListChats ==
    \E uid \in UidInputs :
      \E fail \in Faults(list_chats(uid, "none")) : Handle(list_chats(uid, fail))

GetChat ==
    \E c \in ChatIds, uid \in UidInputs :
      \E fail \in Faults(get_chat(c, uid, "none")) : Handle(get_chat(c, uid, fail))

UpdateChat ==
    /\ resp = NoResponse
    /\ clock < MaxClock
    /\ \E c \in ChatIds, uid \in UidInputs, payload \in UpdatePayloads :
         \E fail \in Faults(update_chat(c, uid, payload, "none")) :
            Handle(Answering(payload, update_chat(c, uid, payload, fail)))

DeleteChat ==
    \E c \in ChatIds, uid \in UidInputs :
      \E fail \in Faults(delete_chat(c, uid, "none")) : Handle(delete_chat(c, uid, fail))

UploadFile ==
    /\ resp = NoResponse
    /\ nextFile < MaxFiles
    /\ clock < MaxClock
    /\ \E c \in ChatIds, uid \in UidInputs, f \in UploadFiles :
         \/ \E fail \in Faults(upload_file(c, uid, TRUE, f, "none")) :
              Handle(Answering(f, upload_file(c, uid, TRUE, f, fail)))
         \/ /\ f = Upload("", 1, "ok", 1, TRUE, "text/plain")
            /\ Handle(upload_file(c, uid, FALSE, f, "none"))

ListFiles ==
    \E c \in ChatIds, uid \in UidInputs :
      \E fail \in Faults(list_files(c, uid, "none")) : Handle(list_files(c, uid, fail))

DownloadFile ==
    \E c \in ChatIds, f \in FileIds, uid \in UidInputs :
      \E fail \in Faults(download_file(c, f, uid, "none")) :
         Handle(Answering(f, download_file(c, f, uid, fail)))

\* What the environment of one add_message does: the store call that fails,
\* the client that answers generate_reply, the client that answers
\* generate_chat_title.  At most one of the three departs from the plain run,
\* and only calls the plain run makes can depart.
Environments(plain) ==
    {[fail |-> f, cl |-> FirstSignatureClient, clTitle |-> PlainTitleClient] :
        f \in Faults(plain)}
    \cup {[fail |-> "none", cl |-> k, clTitle |-> PlainTitleClient] :
            k \in IF "generate_reply" \in Calls(plain) THEN ReplyClients ELSE {}}
    \cup {[fail |-> "none", cl |-> FirstSignatureClient, clTitle |-> k] :
            k \in IF "generate_chat_title" \in Calls(plain) THEN TitleClients ELSE {}}

AddMessageOf(payloads) ==
    /\ resp = NoResponse
    /\ clock + 2 <= MaxClock
    /\ \E c \in ChatIds, uid \in UidInputs, payload \in payloads :
         /\ Len(messages[c]) + 2 <= MaxMsgs
         /\ \E plain \in {add_message(c, uid, payload, "none",
                                      FirstSignatureClient, PlainTitleClient)} :
              \E env \in Environments(plain) :
                 Handle(Answering(payload, add_message(c, uid, payload, env.fail, env.cl, env.clTitle)))

AddMessage == AddMessageOf(MessagePayloads)

(***************************************************************************)
(* notes/utils.py and notes/service.py.  The service is a library: a call  *)
(* returns a note or raises; the response of a call has status 0, the name *)
(* of the exception raised as its error, and the note returned as body.    *)
(***************************************************************************)
NoteIds == 1..MaxNotes

NewNote == <<"N", "e", "w", " ", "n", "o", "t", "e">>

\* normalize_string_list: values is <<>> for None or <<list>>; an entry of the
\* list is <<>> for None or <<text>>.  seen holds the lowercased entries kept.
RECURSIVE normalize_entries(_, _, _)
normalize_entries(entries, lowercase, seen) ==
    IF entries = <<>> THEN <<>>
    ELSE LET raw == Head(entries)
             text == Strip(raw[1])
             key == Lower(text)
         IN IF raw = <<>> THEN normalize_entries(Tail(entries), lowercase, seen)
            ELSE IF text = <<>> THEN normalize_entries(Tail(entries), lowercase, seen)
            ELSE IF key \in seen THEN normalize_entries(Tail(entries), lowercase, seen)
            ELSE <<IF lowercase THEN key ELSE text>>
                 \o normalize_entries(Tail(entries), lowercase, seen \cup {key})

normalize_string_list(values, lowercase) ==
    IF values = <<>> THEN <<>> ELSE normalize_entries(values[1], lowercase, {})

\* _prepare_keywords and _prepare_trigger_words: (original, lowered)
prepare_keywords_unlowered(values) ==
    [original |-> normalize_string_list(values, FALSE),
     lowered |-> normalize_string_list(values, FALSE)]
prepare_keywords(values) ==
    [original |-> normalize_string_list(values, FALSE),
     lowered |-> normalize_string_list(values, TRUE)]
prepare_trigger_words(values) ==
    [original |-> normalize_string_list(values, FALSE),
     lowered |-> normalize_string_list(values, TRUE)]

\* _clean_title and _clean_content of an optional text
note_clean_title(value) ==
    LET title == Strip(IF value = <<>> THEN <<>> ELSE value[1])
    IN IF title = <<>> THEN NewNote ELSE title
note_clean_content(value) == IF value = <<>> THEN <<>> ELSE Strip(value[1])

\* _ensure_ownership raises NotePermissionError
ensure_ownership(data, uid) == data.uid = uid

NoteResult(op, n, uid, trace) == Response(op, n, uid, 0, "none", trace)
NoteRaised(op, n, uid, error, trace) == Response(op, n, uid, 0, error, trace)
\* A raise caused by the exception of a store call
NoteStoreFault(op, n, uid, trace) ==
    Faulted(NoteRaised(op, n, uid, "NoteStoreError", trace), trace[Len(trace)])

\* The outcome of a call that answers r and writes nothing.
NotesUnchanged(r) == [resp |-> r, notes |-> notes, nextNote |-> nextNote, noteClock |-> noteClock]

\* The stored document with its id, as the service returns it
returned_note(n, data) == [data EXCEPT !.id = n]

create_note(uid, p, fail) ==
    LET op == "create_note"
        n == nextNote + 1
        now == noteClock + 1
        keywords == prepare_keywords(p.keywords)
        trigger == prepare_trigger_words(p.triggerWords)
        data == [id |-> 0, uid |-> uid,
                 title |-> note_clean_title(p.title),
                 content |-> note_clean_content(p.content),
                 keywords |-> keywords.original, keywordsLower |-> keywords.lowered,
                 triggerWords |-> trigger.original, triggerWordsLower |-> trigger.lowered,
                 createdAt |-> now, updatedAt |-> now]
        written == [NotesUnchanged(NoResponse) EXCEPT !.notes = [notes EXCEPT ![n] = <<data>>],
                                                      !.nextNote = n,
                                                      !.noteClock = now]
    IN IF uid = "" THEN NotesUnchanged(NoteRaised(op, 0, uid, "NoteStoreError", <<>>))
       ELSE IF fail = "note_set"
       THEN NotesUnchanged(NoteStoreFault(op, 0, uid, <<"note_set">>))
       ELSE IF fail = "note_snapshot"
       THEN [written EXCEPT !.resp = NoteStoreFault(op, n, uid, <<"note_set", "note_snapshot">>)]
       ELSE [written EXCEPT !.resp = WithBody(NoteResult(op, n, uid,
                                                         <<"note_set", "note_snapshot">>),
                                              returned_note(n, data))]

\* What get_note, update_note and delete_note do first (lines 189-202): read
\* the document, raise when it is missing, raise when it is not the caller's.
\* <<>> when the note is the caller's.
note_access(op, n, uid, fail) ==
    IF fail = "note_get" THEN <<NoteStoreFault(op, n, uid, <<"note_get">>)>>
    ELSE IF notes[n] = <<>>
    THEN <<NoteRaised(op, n, uid, "NoteNotFoundError", <<"note_get">>)>>
    ELSE IF ~ensure_ownership(notes[n][1], uid)
    THEN <<NoteRaised(op, n, uid, "NotePermissionError", <<"note_get">>)>>
    ELSE <<>>

get_note(n, uid, fail) ==
    LET denied == note_access("get_note", n, uid, fail)
    IN IF denied # <<>> THEN NotesUnchanged(denied[1])
       ELSE NotesUnchanged(WithBody(NoteResult("get_note", n, uid, <<"note_get">>),
                                    returned_note(n, notes[n][1])))

\* update_payload of update_note applied to the stored document (lines 222-245)
\*   updates: for each key of the dict, whether it is there and its value
note_update_payload(stored, updates, now) ==
    LET content_source == IF updates.hasContent THEN updates.content ELSE updates.excerpt
        keywords == prepare_keywords(updates.keywords)
        trigger_source == IF updates.hasTriggerWords THEN updates.triggerWords
                          ELSE updates.triggerwords
        trigger == prepare_trigger_words(trigger_source)
    IN [stored EXCEPT
          !.title = IF updates.hasTitle THEN note_clean_title(updates.title) ELSE @,
          !.content = IF updates.hasContent \/ updates.hasExcerpt
                      THEN note_clean_content(content_source) ELSE @,
          !.keywords = IF updates.hasKeywords THEN keywords.original ELSE @,
          !.keywordsLower = IF updates.hasKeywords THEN keywords.lowered ELSE @,
          !.triggerWords = IF updates.hasTriggerWords \/ updates.hasTriggerwords
                           THEN trigger.original ELSE @,
          !.triggerWordsLower = IF updates.hasTriggerWords \/ updates.hasTriggerwords
                                THEN trigger.lowered ELSE @,
          !.updatedAt = now]

\* `if not update_payload`
no_supported_field(updates) ==
    ~(updates.hasTitle \/ updates.hasContent \/ updates.hasExcerpt \/ updates.hasKeywords
      \/ updates.hasTriggerWords \/ updates.hasTriggerwords)

update_note(n, uid, updates, fail) ==
    LET op == "update_note"
        now == noteClock + 1
        denied == note_access(op, n, uid, fail)
        final_data == note_update_payload(notes[n][1], updates, now)
        written == [NotesUnchanged(NoResponse) EXCEPT
                       !.notes = [notes EXCEPT ![n] = <<final_data>>],
                       !.noteClock = now]
        calls == <<"note_get", "note_update", "note_snapshot">>
    IN IF denied # <<>> THEN NotesUnchanged(denied[1])
       ELSE IF no_supported_field(updates)
       THEN NotesUnchanged(NoteRaised(op, n, uid, "NoteStoreError", <<"note_get">>))
       ELSE IF fail = "note_update"
       THEN NotesUnchanged(NoteStoreFault(op, n, uid, <<"note_get", "note_update">>))
       ELSE IF fail = "note_snapshot"
       THEN [written EXCEPT !.resp = NoteStoreFault(op, n, uid, calls)]
       ELSE [written EXCEPT !.resp = WithBody(NoteResult(op, n, uid, calls),
                                              returned_note(n, final_data))]

delete_note(n, uid, fail) ==
    LET op == "delete_note"
        denied == note_access(op, n, uid, fail)
    IN IF denied # <<>> THEN NotesUnchanged(denied[1])
       ELSE IF fail = "note_delete"
       THEN NotesUnchanged(NoteStoreFault(op, n, uid, <<"note_get", "note_delete">>))
       ELSE [NotesUnchanged(NoteResult(op, n, uid, <<"note_get", "note_delete">>))
               EXCEPT !.notes = [notes EXCEPT ![n] = <<>>]]

(***************************************************************************)
(* The calls the model makes of the notes service.                         *)
(***************************************************************************)
\* The arguments of create_note: the defaults, or texts and lists that need
\* cleaning.
NoteWords == <<<<<<" ", "H", "i">>>>, <<<<"h", "i">>>>, <<>>, <<<<" ">>>>, <<<<"T">>>>>>
NoteInputs ==
    {[title |-> <<>>, content |-> <<>>, keywords |-> <<>>, triggerWords |-> <<>>],
     [title |-> <<<<" ", "T">>>>, content |-> <<<<" ", "c", " ">>>>,
      keywords |-> <<NoteWords>>, triggerWords |-> <<NoteWords>>]}

NoKeys ==
    [hasTitle |-> FALSE, title |-> <<>>, hasContent |-> FALSE, content |-> <<>>,
     hasExcerpt |-> FALSE, excerpt |-> <<>>, hasKeywords |-> FALSE, keywords |-> <<>>,
     hasTriggerWords |-> FALSE, triggerWords |-> <<>>,
     hasTriggerwords |-> FALSE, triggerwords |-> <<>>]

\* The updates of update_note: {}, {"title": None, "excerpt": " c "}, and
\* {"keywords": [...], "triggerwords": [...]}.
NoteUpdates ==
    {NoKeys,
     [NoKeys EXCEPT !.hasTitle = TRUE, !.hasExcerpt = TRUE, !.excerpt = <<<<" ", "c", " ">>>>],
     [NoKeys EXCEPT !.hasKeywords = TRUE, !.keywords = <<NoteWords>>,
                    !.hasTriggerwords = TRUE, !.triggerwords = <<<<<<<<"T">>>>, <<<<"t">>>>>>>>]}

NoteStoreCalls ==
    {"note_get", "note_set", "note_update", "note_delete", "note_snapshot", "notes_stream"}
NoteFaults(out) == {"none"} \cup (Calls(out) \cap NoteStoreCalls)

\* A call of the notes service is made and returns or raises.
HandleNote(out) ==
    /\ resp = NoResponse
    /\ nextChat = 0
    /\ \E o \in {out} :
         /\ resp' = o.resp
         /\ notes' = o.notes
         /\ nextNote' = o.nextNote
         /\ noteClock' = o.noteClock
    /\ UNCHANGED <<chatVars, gen, userVars>>

CreateNote ==
    /\ resp = NoResponse
    /\ nextNote < MaxNotes
    /\ noteClock < MaxNoteClock
    /\ \E uid \in UidInputs, p \in NoteInputs :
         \E fail \in NoteFaults(create_note(uid, p, "none")) :
            HandleNote(Answering(p, create_note(uid, p, fail)))

GetNote ==
    \E n \in NoteIds, uid \in UidInputs :
      \E fail \in NoteFaults(get_note(n, uid, "none")) : HandleNote(get_note(n, uid, fail))

UpdateNote ==
    /\ resp = NoResponse
    /\ noteClock < MaxNoteClock
    /\ \E n \in NoteIds, uid \in UidInputs, updates \in NoteUpdates :
         \E fail \in NoteFaults(update_note(n, uid, updates, "none")) :
            HandleNote(Answering(updates, update_note(n, uid, updates, fail)))

DeleteNote ==
    \E n \in NoteIds, uid \in UidInputs :
      \E fail \in NoteFaults(delete_note(n, uid, "none")) :
         HandleNote(delete_note(n, uid, fail))

(***************************************************************************)
(* download_file over a store that holds a file document written by        *)
(* something other than upload_file: the document store is shared, and     *)
(* _resolve_storage_path guards against what its storagePath may name.     *)
(***************************************************************************)
\* The files of the machine that are not uploads of the application.
SiblingFile == <<"srv", "uploads_evil", "x">>
SystemFile == <<"etc", "passwd">>
UploadedFile == UploadRoot \o <<"1", "1">>

\* The storagePath values of the stored document: the path upload_file
\* writes, the same with a detour, an absolute path below the root, "",
\* "../../etc/passwd", "/etc/passwd" and "../uploads_evil/x".
StoredPaths ==
    {[abs |-> FALSE, segs |-> <<"1", "1">>],
     [abs |-> FALSE, segs |-> <<"1", "..", "1", "1">>],
     [abs |-> TRUE, segs |-> UploadedFile],
     NoStoragePath,
     [abs |-> FALSE, segs |-> <<"..", "..", "etc", "passwd">>],
     [abs |-> TRUE, segs |-> SystemFile],
     [abs |-> FALSE, segs |-> <<"..", "uploads_evil", "x">>]}

StoredFile(path) ==
    [id |-> 1, uid |-> "u1", fileName |-> <<"a.txt">>, mimeType |-> "text/plain",
     size |-> 1, storagePath |-> path, createdAt |-> 2, textPreview |-> <<>>]

InitDownload ==
    /\ chats = [c \in ChatIds |->
                  IF c = 1 THEN <<create_chat_data("u1", <<>>, <<>>, 1)>> ELSE <<>>]
    /\ messages = [c \in ChatIds |-> <<>>]
    /\ \E path \in StoredPaths :
          files = [c \in ChatIds |-> IF c = 1 THEN {StoredFile(path)} ELSE {}]
    /\ disk \in SUBSET {UploadedFile, SiblingFile, SystemFile}
    /\ clock = 2
    /\ nextChat = 1
    /\ nextFile = 1
    /\ apiKey \in {<<>>, <<"key">>}
    /\ resp = NoResponse
    /\ InitNotes
    /\ InitGen
    /\ InitUsers

NextDownload == DownloadFile \/ SendResponse

SpecDownload == InitDownload /\ [][NextDownload]_vars

(***************************************************************************)
(* add_message with attachments over a store whose files documents carry   *)
(* any uid: the documents are read from the shared store, and add_message  *)
(* checks the uid of each.                                                 *)
(***************************************************************************)
\* The payloads: file 1, a file that does not exist, both, with and without
\* a text.
AttachPayloads ==
    {Message(content, "", FileIdList(items)) :
        content \in {<<>>, <<" ", "H", "i">>},
        items \in {<<FileIdEntry(1, FALSE)>>,
                   <<FileIdEntry(UnknownFileId, TRUE)>>,
                   <<FileIdEntry(1, TRUE), FileIdEntry(UnknownFileId, FALSE),
                     FileIdEntry(1, FALSE)>>}}

InitAttach ==
    /\ chats = [c \in ChatIds |->
                  IF c = 1 THEN <<create_chat_data("u1", <<>>, <<>>, 1)>> ELSE <<>>]
    /\ messages = [c \in ChatIds |-> <<>>]
    /\ \E uploader \in Uids :
          files = [c \in ChatIds |->
                     IF c = 1
                     THEN {[StoredFile(StoragePath(1, 1)) EXCEPT !.uid = uploader,
                                                                 !.createdAt = 1]}
                     ELSE {}]
    /\ disk = {Destination(1, 1)}
    /\ clock = 1
    /\ nextChat = 1
    /\ nextFile = 1
    /\ apiKey \in {<<>>, <<"key">>}
    /\ resp = NoResponse
    /\ InitNotes
    /\ InitGen
    /\ InitUsers

AttachMessage == AddMessageOf(AttachPayloads)

NextAttach == AttachMessage \/ SendResponse

SpecAttach == InitAttach /\ [][NextAttach]_vars

(***************************************************************************)
(* add_message in a chat that has had an exchange: the first message was   *)
(* "Yo", and the title is the default still (no title could be generated), *)
(* or a title that was generated or set since.                             *)
(***************************************************************************)
Yo == <<"Y", "o">>

InitTitle ==
    /\ \E title \in {NewChat, Hi, Yo} :
          chats = [c \in ChatIds |->
                     IF c = 1
                     THEN <<[create_chat_data("u1", <<>>, <<>>, 1) EXCEPT !.title = title,
                                                                          !.updatedAt = 3]>>
                     ELSE <<>>]
    /\ messages = [c \in ChatIds |->
                     IF c = 1
                     THEN <<[id |-> 1, uid |-> "u1", role |-> "user", content |-> Yo,
                             createdAt |-> 2, fileIds |-> <<>>],
                            [id |-> 2, uid |-> "u1", role |-> "assistant", content |-> <<"O", "k">>,
                             createdAt |-> 3, fileIds |-> <<>>]>>
                     ELSE <<>>]
    /\ files = [c \in ChatIds |->
                  IF c = 1
                  THEN {[StoredFile(StoragePath(1, 1)) EXCEPT !.uid = "u1", !.createdAt = 1]}
                  ELSE {}]
    /\ disk = {Destination(1, 1)}
    /\ clock = 3
    /\ nextChat = 1
    /\ nextFile = 1
    /\ apiKey \in {<<>>, <<"key">>}
    /\ resp = NoResponse
    /\ InitNotes
    /\ InitGen
    /\ InitUsers

NextMessage == AddMessageOf(MessagePayloads \cup AttachPayloads)

NextTitle == NextMessage \/ SendResponse

SpecTitle == InitTitle /\ [][NextTitle]_vars

\* add_message with every payload, in a chat that holds a file of its owner
\* or of another uid.
SpecFileIds == InitAttach /\ [][NextTitle]_vars

(***************************************************************************)
(* notes/utils.py extract_trigger_candidates and notes/service.py          *)
(* search_notes, find_notes_for_text.                                      *)
(***************************************************************************)
\* TRIGGER_TOKEN_RE on a lowered text: runs of letters and digits, joined by
\* a single ' or - that stands between two of them.
IsWordChar(ch) == ch \in SeqToSet(LowerLetters) \cup SeqToSet(UpperLetters) \cup Digits
IsJoiner_none(ch) == FALSE
IsJoiner(ch) == ch \in {"'", "-"}

\* TRIGGER_TOKEN_RE.findall(s); cur is the token being read.
RECURSIVE Tokens(_, _)
Tokens(s, cur) ==
    LET done == IF cur = <<>> THEN <<>> ELSE <<cur>>
    IN IF s = <<>> THEN done
       ELSE IF IsWordChar(Head(s)) THEN Tokens(Tail(s), Append(cur, Head(s)))
       ELSE IF cur # <<>> /\ IsJoiner(Head(s)) /\ Len(s) >= 2 /\ IsWordChar(s[2])
       THEN Tokens(Tail(s), Append(cur, Head(s)))
       ELSE done \o Tokens(Tail(s), <<>>)

MaxTerms == 10
MinLength == 2

\* The loop of extract_trigger_candidates over the tokens (lines 93-101)
RECURSIVE candidate_tokens(_, _)
candidate_tokens(tokens, results) ==
    IF tokens = <<>> THEN results
    ELSE IF Len(Head(tokens)) < MinLength THEN candidate_tokens(Tail(tokens), results)
    ELSE IF Head(tokens) \in SeqToSet(results) THEN candidate_tokens(Tail(tokens), results)
    ELSE IF Len(results) + 1 >= MaxTerms THEN Append(results, Head(tokens))
    ELSE candidate_tokens(Tail(tokens), Append(results, Head(tokens)))

\* extract_trigger_candidates(text, max_terms=10); text is <<>> for None
extract_trigger_candidates(text) ==
    IF text = <<>> \/ text[1] = <<>> THEN <<>>
    ELSE candidate_tokens(Tokens(Lower(text[1]), <<>>), <<>>)

\* _MAX_SEARCH_SCAN
MaxSearchScan == 500

\* scan_limit of search_notes (line 292)
scan_limit(limit) ==
    LET most == IF limit * 3 > limit THEN limit * 3 ELSE limit
    IN IF most < MaxSearchScan THEN most ELSE MaxSearchScan

\* The first n entries of a list: query.limit(n), and max_items
FirstOf(list, n) == SubSeq(list, 1, IF Len(list) < n THEN Len(list) ELSE n)

\* where("uid", "==", uid): the ids of the notes of uid
NotesOf(uid) == {n \in DOMAIN notes : notes[n] # <<>> /\ notes[n][1].uid = uid}

\* order_by("updatedAt", DESCENDING) of a set of note ids
RECURSIVE OrderNotesByUpdatedAtDesc(_)
OrderNotesByUpdatedAtDesc(ids) ==
    IF ids = {} THEN <<>>
    ELSE LET first == CHOOSE n \in ids :
                        \A m \in ids : notes[n][1].updatedAt >= notes[m][1].updatedAt
         IN <<first>> \o OrderNotesByUpdatedAtDesc(ids \ {first})

\* A query without order_by: the store yields the documents by id.
RECURSIVE OrderNotesById(_)
OrderNotesById(ids) ==
    IF ids = {} THEN <<>>
    ELSE LET first == CHOOSE n \in ids : \A m \in ids : n <= m
         IN <<first>> \o OrderNotesById(ids \ {first})

\* " ".join(words)
RECURSIVE JoinWords(_)
JoinWords(words) ==
    IF words = <<>> THEN <<>>
    ELSE IF Len(words) = 1 THEN Head(words)
    ELSE Head(words) \o <<" ">> \o JoinWords(Tail(words))

\* needle in haystack
IsSubstring(needle, haystack) ==
    \E i \in 0..(Len(haystack) - Len(needle)) :
       SubSeq(haystack, i + 1, i + Len(needle)) = needle

\* The haystack of a note for the free-text query (lines 328-336)
note_haystack(data) ==
    Lower(JoinWords(<<data.title, data.content, JoinWords(data.keywords),
                      JoinWords(data.triggerWords)>>))

\* A document passes the filters of search_notes (lines 320-338).
note_matches(data, trigger_set, keyword_set, query_text) ==
    /\ trigger_set # {} => trigger_set \cap SeqToSet(data.triggerWordsLower) # {}
    /\ keyword_set # {} => keyword_set \cap SeqToSet(data.keywordsLower) # {}
    /\ query_text # <<>> => IsSubstring(query_text, note_haystack(data))

\* The loop of search_notes over the documents (lines 318-343)
RECURSIVE scan_documents(_, _, _, _, _, _)
scan_documents(docs, trigger_set, keyword_set, query_text, limit, results) ==
    IF docs = <<>> THEN results
    ELSE IF ~note_matches(notes[Head(docs)][1], trigger_set, keyword_set, query_text)
    THEN scan_documents(Tail(docs), trigger_set, keyword_set, query_text, limit, results)
    ELSE IF Len(results) + 1 >= limit
    THEN Append(results, returned_note(Head(docs), notes[Head(docs)][1]))
    ELSE scan_documents(Tail(docs), trigger_set, keyword_set, query_text, limit,
                        Append(results, returned_note(Head(docs), notes[Head(docs)][1])))

\* A list of strings as normalize_string_list takes it
AsValues(words) == <<[i \in 1..Len(words) |-> <<words[i]>>]>>

\* search_notes; the store answers the ordered query ("ok"), raises
\* FailedPrecondition for it and answers the unordered one ("no_index"),
\* or fails ("stream" for the ordered query, "scan" for the unordered one).
\* query, trigger_terms, keyword_terms: <<>> for None
search_notes(op, uid, query, trigger_terms, keyword_terms, limit, store) ==
    LET terms == FirstOf(normalize_string_list(trigger_terms, TRUE), MaxTerms)
        keywords == normalize_string_list(keyword_terms, TRUE)
        query_text == Lower(Strip(IF query = <<>> THEN <<>> ELSE query[1]))
        ordered == FirstOf(OrderNotesByUpdatedAtDesc(NotesOf(uid)), scan_limit(limit))
        unordered == FirstOf(OrderNotesById(NotesOf(uid)), scan_limit(limit))
        found(docs) == scan_documents(docs, SeqToSet(terms), SeqToSet(keywords),
                                      query_text, limit, <<>>)
    IN IF uid = "" THEN NoteRaised(op, 0, uid, "NoteStoreError", <<>>)
       ELSE IF store = "stream" THEN NoteStoreFault(op, 0, uid, <<"notes_stream">>)
       ELSE IF store = "ok"
       THEN WithBody(NoteResult(op, 0, uid, <<"notes_stream">>), found(ordered))
       ELSE IF store = "scan"
       THEN NoteStoreFault(op, 0, uid, <<"notes_stream", "notes_scan">>)
       ELSE WithBody(NoteResult(op, 0, uid, <<"notes_stream", "notes_scan">>),
                     found(unordered))

\* find_notes_for_text: a NoteStoreError of the search is logged and the
\* result is the empty list.
find_notes_for_text(uid, text, limit, store) ==
    LET op == "find_notes_for_text"
        triggers == extract_trigger_candidates(text)
        candidates == search_notes(op, uid, <<>>, AsValues(triggers), <<>>, limit, store)
    IN IF triggers = <<>> THEN NotesUnchanged(WithBody(NoteResult(op, 0, uid, <<>>), <<>>))
       ELSE IF candidates.error # "none"
       THEN NotesUnchanged(WithBody([candidates EXCEPT !.error = "none"], <<>>))
       ELSE NotesUnchanged(candidates)

(***************************************************************************)
(* find_notes_for_text over a store of notes.                              *)
(***************************************************************************)
MaxSearchNotes == 4

Invoice == <<"I", "n", "v", "o", "i", "c", "e">>
InvoiceText == <<"P", "l", "e", "a", "s", "e", " ", "r", "e", "v", "i", "e", "w", " ", "t", "h", "e", " ", "I", "n", "v", "o", "i", "c", "e", " ", "n", "o", "w">>
ShortWordsText == <<"A", " ", "b", " ", "-", " ", "'">>
ManyWordsText == <<"a", "a", " ", "b", "b", " ", "c", "c", " ", "d", "d", " ", "e", "e", " ", "f", "f", " ", "g", "g", " ", "h", "h", " ", "i", "i", " ", "o", "'", "k", "-", "j", "j", " ", "I", "n", "v", "o", "i", "c", "e">>

\* The texts searched for: None, one whose words are too short, the request
\* to review the invoice, and one that names the invoice as its 11th word.
SearchTexts == {<<>>, <<ShortWordsText>>, <<InvoiceText>>, <<ManyWordsText>>}

\* A note as create_note stores it.
SearchNote(uid, words, at) ==
    LET trigger == prepare_trigger_words(AsValues(words))
    IN [id |-> 0, uid |-> uid, title |-> NewNote, content |-> <<>>,
        keywords |-> <<>>, keywordsLower |-> <<>>,
        triggerWords |-> trigger.original, triggerWordsLower |-> trigger.lowered,
        createdAt |-> at, updatedAt |-> at]

\* The store: every note of u1 or u2, with the trigger word "Invoice" or
\* without trigger words, the notes updated in the order of their ids or
\* against it.
InitSearch ==
    /\ \E owner \in [1..MaxSearchNotes -> Uids],
          words \in [1..MaxSearchNotes -> {<<>>, <<Invoice>>}],
          newestFirst \in BOOLEAN :
          notes = [n \in 1..MaxSearchNotes |->
                     <<SearchNote(owner[n], words[n],
                                  IF newestFirst THEN MaxSearchNotes + 1 - n ELSE n)>>]
    /\ nextNote = MaxSearchNotes
    /\ noteClock = MaxSearchNotes
    /\ InitChats
    /\ InitGen
    /\ InitUsers

FindNotes ==
    \E uid \in UidInputs, text \in SearchTexts, limit \in 1..2,
       store \in {"ok", "no_index", "stream", "scan"} :
       /\ resp = NoResponse
       /\ store # "ok" => "notes_stream" \in Calls(find_notes_for_text(uid, text, limit, "ok"))
       /\ HandleNote(Answering([text |-> text, limit |-> limit, store |-> store],
                               find_notes_for_text(uid, text, limit, store)))

NextSearch == FindNotes \/ SendResponse

SpecSearch == InitSearch /\ [][NextSearch]_vars

\* list_notes: the notes of uid, most recently updated first, the first
\* `limit` of them when a limit is given (0: None).
list_notes(uid, limit, fail) ==
    LET op == "list_notes"
        ordered == OrderNotesByUpdatedAtDesc(NotesOf(uid))
        documents == IF limit # 0 THEN FirstOf(ordered, limit) ELSE ordered
    IN IF uid = "" THEN NotesUnchanged(NoteRaised(op, 0, uid, "NoteStoreError", <<>>))
       ELSE IF fail = "notes_stream"
       THEN NotesUnchanged(NoteStoreFault(op, 0, uid, <<"notes_stream">>))
       ELSE NotesUnchanged(WithBody(NoteResult(op, 0, uid, <<"notes_stream">>),
                [i \in 1..Len(documents) |->
                    returned_note(documents[i], notes[documents[i]][1])]))

\* serialize_note of a note the service returned
serialize_note(document_id, data) ==
    [id |-> document_id, uid |-> data.uid, title |-> data.title,
     content |-> data.content, excerpt |-> data.content,
     keywords |-> data.keywords,
     triggerWords |-> data.triggerWords, triggerwords |-> data.triggerWords,
     createdAt |-> to_iso(data.createdAt), updatedAt |-> to_iso(data.updatedAt)]

ListNotes ==
    \E uid \in UidInputs, limit \in 0..1 :
      \E fail \in NoteFaults(list_notes(uid, limit, "none")) :
         HandleNote(Answering([limit |-> limit], list_notes(uid, limit, fail)))

NextNotes ==
    \/ CreateNote
    \/ GetNote
    \/ ListNotes
    \/ UpdateNote
    \/ DeleteNote

NextChats ==
    \/ CreateChat
    \/ ListChats
    \/ GetChat
    \/ UpdateChat
    \/ DeleteChat
    \/ UploadFile
    \/ ListFiles
    \/ DownloadFile
    \/ AddMessage
    \/ SendResponse

(***************************************************************************)
(* add_message beside delete_chat.  The lookup of the chat (lines 753-765) *)
(* and the writes (lines 814-818) are separate calls of the store, and     *)
(* another request can be handled between them: gen holds the add_message  *)
(* request that has found its chat and has not written yet.                *)
(***************************************************************************)
\* The request passed the checks of its payload and found the chat.
AddMessageCheck ==
    /\ resp = NoResponse
    /\ gen = <<>>
    /\ nextNote = 0
    /\ clock + 2 <= MaxClock
    /\ \E c \in ChatIds, uid \in UidInputs, payload \in MessagePayloads :
         /\ Len(messages[c]) + 2 <= MaxMsgs
         /\ validate_message(c, uid, Strip(payload.content), requested_role(payload.role),
                             parse_file_ids(payload.fileIds)) = <<>>
         /\ get_chat_for_user(c, uid, "none") = "ok"
         /\ gen' = <<[op |-> "add_message", chat |-> c, uid |-> uid, payload |-> payload]>>
    /\ UNCHANGED <<chatVars, resp, noteVars, userVars>>

\* What the store does to the writes of a request whose chat is gone:
\* user_message_ref.set creates the message document, under a parent that
\* does not exist, or fails; chat_ref.update of a document that does not
\* exist raises NotFound, a GoogleAPICallError.
WritesToDeleted == {"user_set", "user_update"}

\* The rest of the handler, from the file checks on, in the store as it is now.
AddMessageWrite ==
    /\ resp = NoResponse
    /\ gen # <<>>
    /\ gen[1].op = "add_message"
    /\ Len(messages[gen[1].chat]) + 2 <= MaxMsgs
    /\ LET c == gen[1].chat
           uid == gen[1].uid
           payload == gen[1].payload
           rest(fail, cl, clTitle) ==
               persist_and_reply(c, uid, Strip(payload.content), requested_role(payload.role),
                                 parse_file_ids(payload.fileIds)[1], fail, cl, clTitle)
       IN \E out \in IF chats[c] = <<>>
                     THEN {rest(fail, FirstSignatureClient, PlainTitleClient) :
                              fail \in WritesToDeleted}
                     ELSE {rest(env.fail, env.cl, env.clTitle) :
                              env \in Environments(rest("none", FirstSignatureClient,
                                                        PlainTitleClient))} :
            \E o \in {Answering(payload, out)} :
               /\ resp' = o.resp
               /\ chats' = o.chats
               /\ messages' = o.messages
               /\ files' = o.files
               /\ disk' = o.disk
               /\ clock' = o.clock
               /\ nextChat' = o.nextChat
               /\ nextFile' = o.nextFile
    /\ gen' = <<>>
    /\ UNCHANGED <<apiKey, noteVars, userVars>>

NextRace ==
    \/ CreateChat
    \/ DeleteChat
    \/ AddMessage
    \/ AddMessageCheck
    \/ AddMessageWrite
    \/ SendResponse

SpecRace == Init /\ [][NextRace]_vars

(***************************************************************************)
(* ai/gemini.py as a state machine: generate_reply is called with a        *)
(* conversation and a client, and gen holds the last call and its result.  *)
(***************************************************************************)
\* The response texts of a client, and the clients: every behaviour of the
\* three signatures with every choice of texts.
GenTexts == {<<>>, <<" ">>, <<" ", "O", "k", "\n">>}
GenClients == [sig : [1..3 -> Outcomes], text : [1..3 -> GenTexts]]

\* The conversations: none, one that formats to nothing, a plain one, one
\* with a system prompt.
GenMessages ==
    {<<>>,
     <<[role |-> "user", content |-> <<" ">>, parts |-> <<>>]>>,
     <<[role |-> "user", content |-> Hi, parts |-> <<>>]>>,
     <<[role |-> "system", content |-> <<"S">>, parts |-> <<>>],
       [role |-> "assistant", content |-> <<>>, parts |-> <<>>],
       [role |-> "user", content |-> <<" ", "H", "i">>, parts |-> <<>>]>>}

GenerateReply ==
    /\ gen = <<>>
    /\ \E ms \in GenMessages, cl \in GenClients :
         gen' = <<[op |-> "generate_reply", messages |-> ms, client |-> cl,
                   result |-> generate_reply(ms, cl)]>>
    /\ UNCHANGED <<chatVars, resp, noteVars, userVars>>

\* The caller takes the result.
GenReturn ==
    /\ gen # <<>>
    /\ gen' = <<>>
    /\ UNCHANGED <<chatVars, resp, noteVars, userVars>>

NextGen == GenerateReply \/ GenReturn

SpecGen == Init /\ [][NextGen]_vars

(***************************************************************************)
(* extract_trigger_candidates called with a text: gen holds the call and   *)
(* the list it returned.                                                   *)
(***************************************************************************)
MaxTextLen == 4

\* The texts: None, every text of up to MaxTextLen characters of a letter, a
\* capital, a digit, the two joiners and the blank, a text that repeats a
\* word in other cases, and the texts of the search.
CandidateChars == {"a", "B", "1", "-", "'", " "}
RepeatedWordsText == <<"A", "b", " ", "a", "b", " ", "A", "B", "-", "c", "d", " ", "a", "b">>
CandidateTexts ==
    {<<>>}
    \cup {<<t>> : t \in UNION {[1..n -> CandidateChars] : n \in 0..MaxTextLen}}
    \cup {<<RepeatedWordsText>>}
    \cup SearchTexts

ExtractTriggerCandidates ==
    /\ gen = <<>>
    /\ \E text \in CandidateTexts :
         gen' = <<[op |-> "extract_trigger_candidates", text |-> text,
                   result |-> extract_trigger_candidates(text)]>>
    /\ UNCHANGED <<chatVars, resp, noteVars, userVars>>

NextCandidates == ExtractTriggerCandidates \/ GenReturn

SpecCandidates == Init /\ [][NextCandidates]_vars

(***************************************************************************)
(* generate_chat_title called with a client: gen holds the call and the    *)
(* title it returned.                                                      *)
(***************************************************************************)
\* n times the character ch
Repeat(ch, n) == [i \in 1..n |-> ch]

\* The texts the client answers the title request with: a title with a full
\* stop and a second line, one with an exclamation mark, one that is only a
\* full stop, one with a full stop in front, one with a blank before the
\* full stop, and first lines of more than 80 characters: letters only, a
\* blank as the 80th character, a full stop as the 80th character.
TitleTexts ==
    {<<"H", "i", ".", "\n", "x">>,
     <<"H", "i", "!">>,
     <<".">>,
     <<".", "H", "i">>,
     <<"H", "i", " ", ".">>,
     <<" ">>,
     Repeat("a", TitleMaxLen + 5),
     Repeat("a", TitleMaxLen - 1) \o <<" ", "b">>,
     Repeat("a", TitleMaxLen - 1) \o <<".", "b">>}

GenerateChatTitle ==
    /\ gen = <<>>
    /\ \E sig \in [1..3 -> Outcomes], text \in TitleTexts :
         LET cl == [sig |-> sig, text |-> <<text, text, text>>]
         IN gen' = <<[op |-> "generate_chat_title", messages |-> <<>>, client |-> cl,
                      result |-> generate_chat_title(Hi, <<"O", "k">>, cl)]>>
    /\ UNCHANGED <<chatVars, resp, noteVars, userVars>>

NextChatTitle == GenerateChatTitle \/ GenReturn

SpecChatTitle == Init /\ [][NextChatTitle]_vars

(***************************************************************************)
(* stream_reply: the client is seen through its two hosts, client.models   *)
(* and client.responses, each with the methods it has.                     *)
(***************************************************************************)
\* The keyword arguments of the three calls, after model= and contents=.
stream_kwargs == <<"request_options", "timeout", "plain">>

\* A call of a method of a host: the third record field is the signature, the
\* fourth the stream= argument ("unset" when it is not passed).
dedicated_call(host_name, method_name, k) ==
    [host |-> host_name, method |-> method_name, kwargs |-> stream_kwargs[k], stream |-> "unset"]
generate_call_flag_unset(host_name, k) ==
    [host |-> host_name, method |-> "generate_content", kwargs |-> stream_kwargs[k],
     stream |-> "unset"]
generate_call(host_name, k) ==
    [host |-> host_name, method |-> "generate_content", kwargs |-> stream_kwargs[k],
     stream |-> "True"]

\* What _try_call and _start_stream end in: the stream a call returned (the
\* stream of a call is named by the call), nothing, or a GeminiAPIError.
StreamOf(call, calls) ==
    [done |-> TRUE, stream |-> <<call>>, calls |-> calls, raised |-> "none", error |-> "none"]
NoStream(calls) ==
    [done |-> FALSE, stream |-> <<>>, calls |-> calls, raised |-> "none", error |-> "none"]
StreamErr(calls, error) ==
    [done |-> TRUE, stream |-> <<>>, calls |-> calls, raised |-> "GeminiAPIError",
     error |-> error]

\* The next signature is tried after a TypeError, and after no other failure.
tries_next_any_failure(outcome) == outcome # "ok"
tries_next(outcome) == outcome = "TypeError"

\* The three calls of a dedicated streaming method (lines 139-151), from the
\* k-th on.
RECURSIVE dedicated_attempts(_, _, _, _, _)
dedicated_attempts(host_name, method_name, sig, k, calls) ==
    IF k > Len(stream_kwargs)
    THEN NoStream(calls)
    ELSE LET call == dedicated_call(host_name, method_name, k)
             made == Append(calls, call)
         IN CASE sig[k] = "ok" -> StreamOf(call, made)
              [] tries_next(sig[k]) ->
                    dedicated_attempts(host_name, method_name, sig, k + 1, made)
              [] OTHER -> StreamErr(made, "api_error")

\* The three calls of generate_content(stream=True) (lines 155-172), from the
\* k-th on: a call that returns None or something that is no stream is
\* followed by the next call.
RECURSIVE generate_attempts(_, _, _, _)
generate_attempts(host_name, sig, k, calls) ==
    IF k > Len(stream_kwargs)
    THEN NoStream(calls)
    ELSE LET call == generate_call(host_name, k)
             made == Append(calls, call)
         IN CASE sig[k] = "ok" -> StreamOf(call, made)
              [] sig[k] \in {"TypeError", "None", "NotAStream"} ->
                    generate_attempts(host_name, sig, k + 1, made)
              [] OTHER -> StreamErr(made, "api_error")

\* The generate-call of _try_call (lines 153-173).
generate_fallback(host_name, host, calls) ==
    IF host.generate_content = <<>>
    THEN NoStream(calls)
    ELSE generate_attempts(host_name, host.generate_content[1], 1, calls)

method_names == <<"stream_generate_content", "generate_content_stream">>

\* _try_call of a host that is not None, from the names-th method name on.
RECURSIVE try_methods(_, _, _, _)
try_methods(host_name, host, names, calls) ==
    IF names = <<>>
    THEN generate_fallback(host_name, host, calls)
    ELSE LET method == host[Head(names)]
             tried == dedicated_attempts(host_name, Head(names), method[1], 1, calls)
         IN IF method = <<>>
            THEN try_methods(host_name, host, Tail(names), calls)
            ELSE IF tried.done THEN tried
                 ELSE try_methods(host_name, host, Tail(names), tried.calls)

try_call(host_name, host, calls) ==
    IF host = <<>> THEN NoStream(calls) ELSE try_methods(host_name, host[1], method_names, calls)

start_stream(client) ==
    LET models == try_call("models", client.models, <<>>)
        responses == try_call("responses", client.responses, models.calls)
    IN IF models.done THEN models
       ELSE IF responses.done THEN responses
       ELSE StreamErr(responses.calls, "unsupported")

stream_reply(ms, client) ==
    IF format_messages(ms) = <<>>
    THEN StreamErr(<<>>, "empty_conversation")
    ELSE start_stream(client)

\* A method of a host: missing, or what its three calls do.
NoMethod == <<>>
Method(first, second, third) == << <<first, second, third>> >>

\* The dedicated streaming methods: missing, or one for each way through the
\* three calls.
DedicatedMethods ==
    {NoMethod,
     Method("ok", "Error", "Error"),
     Method("TypeError", "ok", "Error"),
     Method("TypeError", "TypeError", "ok"),
     Method("TypeError", "TypeError", "TypeError"),
     Method("Error", "ok", "ok"),
     Method("TypeError", "Error", "ok"),
     Method("TypeError", "TypeError", "Error")}

\* generate_content: missing, or any behaviour of its three calls.
GenerateOutcomes == {"ok", "TypeError", "Error", "None", "NotAStream"}
GenerateMethods ==
    {NoMethod} \cup {Method(a, b, c) : a, b, c \in GenerateOutcomes}

Host(stream_generate_content, generate_content_stream, generate_content) ==
    <<[stream_generate_content |-> stream_generate_content,
       generate_content_stream |-> generate_content_stream,
       generate_content |-> generate_content]>>
NoHost == <<>>

StreamClients ==
    {[models |-> Host(s, g, c), responses |-> r] :
        s \in DedicatedMethods, g \in DedicatedMethods, c \in GenerateMethods,
        r \in {NoHost,
               Host(NoMethod, Method("ok", "ok", "ok"), NoMethod),
               Host(NoMethod, NoMethod, Method("TypeError", "ok", "ok"))}}
    \cup {[models |-> NoHost, responses |-> Host(NoMethod, NoMethod, Method("ok", "ok", "ok"))],
          [models |-> NoHost, responses |-> NoHost]}

\* The conversations of stream_reply: one that formats to nothing, a plain one.
StreamMessages ==
    {<<[role |-> "user", content |-> <<" ">>, parts |-> <<>>]>>,
     <<[role |-> "user", content |-> Hi, parts |-> <<>>]>>}

StreamReply ==
    /\ gen = <<>>
    /\ \E ms \in StreamMessages, cl \in StreamClients :
         gen' = <<[op |-> "stream_reply", messages |-> ms, client |-> cl,
                   result |-> stream_reply(ms, cl)]>>
    /\ UNCHANGED <<chatVars, resp, noteVars, userVars>>

NextStream == StreamReply \/ GenReturn

SpecStream == Init /\ [][NextStream]_vars

(***************************************************************************)
(* _format_messages, generate_reply and stream_reply called with the same  *)
(* conversations: gen holds the call and what it returned.                 *)
(***************************************************************************)
MaxConversation == 3

\* What a message can hold: a text that is blank or not, and no parts, a
\* Part, an upload that failed or a blank string part.
FormatBodies ==
    {[content |-> <<" ">>, parts |-> <<>>],
     [content |-> <<" ", "H", "i">>, parts |-> <<>>],
     [content |-> <<>>, parts |-> <<[kind |-> "Part", text |-> <<"P">>, ok |-> TRUE]>>],
     [content |-> <<" ">>, parts |-> <<[kind |-> "upload", text |-> <<>>, ok |-> FALSE]>>],
     [content |-> <<>>, parts |-> <<[kind |-> "str", text |-> <<" ">>, ok |-> TRUE]>>]}
FormatInputs ==
    {[role |-> r, content |-> b.content, parts |-> b.parts] :
        r \in {"system", "assistant", "user"}, b \in FormatBodies}
FormatConversations ==
    UNION {[1..n -> FormatInputs] : n \in 0..MaxConversation}

\* A client whose first call answers, and a streaming client with the
\* dedicated method.
AnsweringClient == [sig |-> [k \in 1..3 |-> "ok"], text |-> [k \in 1..3 |-> <<"O", "k">>]]
StreamingClient ==
    [models |-> Host(Method("ok", "ok", "ok"), NoMethod, NoMethod), responses |-> NoHost]

FormatMessages ==
    /\ gen = <<>>
    /\ \E ms \in FormatConversations :
         gen' = <<[op |-> "_format_messages", messages |-> ms,
                   result |-> format_messages(ms)]>>
    /\ UNCHANGED <<chatVars, resp, noteVars, userVars>>

GenerateReplyOfFormatted ==
    /\ gen = <<>>
    /\ \E ms \in FormatConversations :
         gen' = <<[op |-> "generate_reply", messages |-> ms, client |-> AnsweringClient,
                   result |-> generate_reply(ms, AnsweringClient)]>>
    /\ UNCHANGED <<chatVars, resp, noteVars, userVars>>

StreamReplyOfFormatted ==
    /\ gen = <<>>
    /\ \E ms \in FormatConversations :
         gen' = <<[op |-> "stream_reply", messages |-> ms, client |-> StreamingClient,
                   result |-> stream_reply(ms, StreamingClient)]>>
    /\ UNCHANGED <<chatVars, resp, noteVars, userVars>>

NextFormat ==
    \/ FormatMessages
    \/ GenerateReplyOfFormatted
    \/ StreamReplyOfFormatted
    \/ GenReturn

SpecFormat == Init /\ [][NextFormat]_vars

(***************************************************************************)
(* users/service.py: the profile documents of the "users" collection.  A   *)
(* dict is a function of its keys; None is <<>> and a value x is <<x>>.    *)
(***************************************************************************)
MaxUserClock == 3

EmptyDict == <<>>

\* dict.update: the keys of b, then those of a.
dict_update(a, b) ==
    [k \in DOMAIN a \cup DOMAIN b |-> IF k \in DOMAIN b THEN b[k] ELSE a[k]]

\* _clean_payload: the keys whose value is not None.
clean_payload(payload) ==
    [k \in {key \in DOMAIN payload : payload[key] # <<>>} |-> payload[k][1]]

\* updates["createdAt"], set when the snapshot does not exist (lines 45-46)
creation_fields_always(exists, timestamp_value) == [createdAt |-> timestamp_value]
creation_fields(exists, timestamp_value) ==
    IF exists THEN EmptyDict ELSE [createdAt |-> timestamp_value]

\* The outcome of a call that answers r and writes nothing.
UsersUnchanged(r) == [resp |-> r, users |-> users, userClock |-> userClock]

UserStoreFault(op, uid, trace) ==
    Faulted(Response(op, 0, uid, 0, "UserProfileStoreError", trace), trace[Len(trace)])

\* to_dict() of a snapshot, with the uid
returned_profile(uid, data) == dict_update(data, [uid |-> uid])

upsert_user_profile(uid, email, display_name, photo_url, extra_fields, fail) ==
    LET op == "upsert_user_profile"
        exists == users[uid] # <<>>
        timestamp_value == userClock + 1
        named == clean_payload([email |-> email, displayName |-> display_name,
                                photoUrl |-> photo_url])
        extra == IF extra_fields = <<>> THEN EmptyDict ELSE clean_payload(extra_fields[1])
        updates == dict_update(dict_update(dict_update([updatedAt |-> timestamp_value],
                                                       creation_fields(exists, timestamp_value)),
                                           named),
                               extra)
        stored == dict_update(IF exists THEN users[uid][1] ELSE EmptyDict, updates)
        written == [resp |-> NoResponse,
                    users |-> [users EXCEPT ![uid] = <<stored>>],
                    userClock |-> timestamp_value]
    IN IF fail = "profile_get"
       THEN UsersUnchanged(UserStoreFault(op, uid, <<"profile_get">>))
       ELSE IF fail = "profile_set"
       THEN UsersUnchanged(UserStoreFault(op, uid, <<"profile_get", "profile_set">>))
       ELSE IF fail = "profile_final_get"
       THEN [written EXCEPT !.resp = UserStoreFault(op, uid, <<"profile_get", "profile_set",
                                                                "profile_final_get">>)]
       ELSE [written EXCEPT !.resp =
                WithBody(Response(op, 0, uid, 0, "none",
                                  <<"profile_get", "profile_set", "profile_final_get">>),
                         returned_profile(uid, stored))]

get_user_profile(uid, fail) ==
    LET op == "get_user_profile"
    IN IF fail = "profile_get"
       THEN UsersUnchanged(UserStoreFault(op, uid, <<"profile_get">>))
       ELSE IF users[uid] = <<>>
       THEN UsersUnchanged(Response(op, 0, uid, 0, "none", <<"profile_get">>))
       ELSE UsersUnchanged(WithBody(Response(op, 0, uid, 0, "none", <<"profile_get">>),
                                    returned_profile(uid, users[uid][1])))

\* The arguments of upsert_user_profile: each field None or a value, and
\* extra_fields None, a further field, or a further field that is None.
Emails == {<<>>, <<"a@x">>, <<"b@x">>}
DisplayNames == {<<>>, <<"Ann">>}
PhotoUrls == {<<>>, <<"p">>}
ExtraFields == {<<>>, <<[locale |-> <<"en">>]>>, <<[locale |-> <<>>]>>}

HandleUser(out) ==
    /\ resp = NoResponse
    /\ \E o \in {out} :
         /\ resp' = o.resp
         /\ users' = o.users
         /\ userClock' = o.userClock
    /\ UNCHANGED <<chatVars, noteVars, gen>>

UpsertUserProfile ==
    /\ resp = NoResponse
    /\ userClock < MaxUserClock
    /\ \E uid \in Uids, email \in Emails, display_name \in DisplayNames,
          photo_url \in PhotoUrls, extra_fields \in ExtraFields,
          fail \in {"none", "profile_get", "profile_set", "profile_final_get"} :
          HandleUser(Answering([email |-> email, displayName |-> display_name,
                                photoUrl |-> photo_url, extra_fields |-> extra_fields],
                               upsert_user_profile(uid, email, display_name, photo_url,
                                                   extra_fields, fail)))

GetUserProfile ==
    /\ resp = NoResponse
    /\ \E uid \in Uids, fail \in {"none", "profile_get"} :
          HandleUser(get_user_profile(uid, fail))

NextUsers == UpsertUserProfile \/ GetUserProfile \/ SendResponse

SpecUsers == Init /\ [][NextUsers]_vars

Next == NextChats \/ NextNotes

Spec == Init /\ [][Next]_vars

(***************************************************************************)
(* Properties.  A request is handled in one step, from a state in which no *)
(* response is pending to one in which resp' is the response; the property *)
(* of a handler is a property of those steps.                              *)
(***************************************************************************)
\* The step handles a request of route op.
Handles(op) == resp = NoResponse /\ resp'.op = op

\* The step leaves every chat, message, file metadata and stored byte alone.
StoreUnchanged == chats' = chats /\ messages' = messages /\ files' = files /\ disk' = disk

\* A text with a character that is no blank, and the text without the blanks
\* around it, by position.
HasText(s) == \E i \in 1..Len(s) : s[i] \notin Whitespace
Trimmed(s) ==
    IF ~HasText(s) THEN <<>>
    ELSE LET first == CHOOSE i \in 1..Len(s) :
                         s[i] \notin Whitespace /\ \A j \in 1..(i - 1) : s[j] \in Whitespace
             last == CHOOSE i \in 1..Len(s) :
                        s[i] \notin Whitespace /\ \A j \in (i + 1)..Len(s) : s[j] \in Whitespace
         IN SubSeq(s, first, last)

\* a occurs before b in the calls of a trace
Precedes(trace, a, b) ==
    \E i, j \in 1..Len(trace) : i < j /\ trace[i] = a /\ trace[j] = b

\* The caller of the request resp' answers owns the chat it names.
ByOwner == chats[resp'.chat] # <<>> /\ chats[resp'.chat][1].uid = resp'.uid
ByAnother == chats[resp'.chat] # <<>> /\ chats[resp'.chat][1].uid # resp'.uid

\* The ids a fileIds payload names, blanks dropped.
NamedFiles(raw) == {raw.items[i].id : i \in 1..Len(raw.items)} \ {0}

\* A payload of add_message that passes the checks of the input: fileIds is
\* a list of strings, there is a text or a file, the role is user or system.
WellFormedMessage(p) ==
    /\ p.fileIds.isList
    /\ \A i \in 1..Len(p.fileIds.items) : p.fileIds.items[i].isStr
    /\ HasText(p.content) \/ NamedFiles(p.fileIds) # {}
    /\ p.role \in {"", "System"}

\* The request resp' answers passes the checks of its input.
PassesValidation ==
    /\ resp'.uid # ""
    /\ resp'.op = "add_message" => WellFormedMessage(resp'.req[1])
    /\ resp'.op = "upload_file" => resp'.req # <<>>

OwnedRoutes ==
    {"get_chat", "update_chat", "delete_chat", "add_message", "upload_file", "list_files",
     "download_file"}
OwnedNoteCalls == {"get_note", "update_note", "delete_note"}

\* C1. Ownership: a request on a chat of another uid changes no chat, message,
\* file metadata or stored byte, and once it has passed the checks of its
\* input and the chat has been read it is answered 403 forbidden with no other
\* call made; get_note, update_note and delete_note on a note of another uid
\* raise NotePermissionError and write nothing.
C1_Ownership ==
    [][/\ (resp = NoResponse /\ resp'.op \in OwnedRoutes /\ ByAnother) =>
             /\ StoreUnchanged
             /\ resp'.status \in {400, 403, 503}
             /\ resp'.status = 503 => resp'.fault = "chat_get"
             /\ (PassesValidation /\ resp'.fault = "none") =>
                   /\ resp'.status = 403
                   /\ resp'.error = "forbidden"
                   /\ resp'.trace = <<"chat_get">>
       /\ (/\ resp = NoResponse
           /\ resp'.op \in OwnedNoteCalls
           /\ notes[resp'.chat] # <<>>
           /\ notes[resp'.chat][1].uid # resp'.uid) =>
             /\ notes' = notes
             /\ resp'.trace = <<"note_get">>
             /\ resp'.fault = "none" => resp'.error = "NotePermissionError"]_vars

\* A delete by another uid is refused on a chat that has messages.
C1_Witness ==
    /\ resp.op = "delete_chat"
    /\ resp.status = 403
    /\ chats[resp.chat] # <<>>
    /\ chats[resp.chat][1].uid # resp.uid
    /\ messages[resp.chat] # <<>>

\* C2. add_message stores the user message before it calls generate_reply; when
\* generate_reply raises, the response is 502 ai_error with the stored user
\* message, that message is the one message added to the chat, no assistant
\* message is stored and the title stays as it was.
C2_UserMessageKept ==
    [][Handles("add_message") =>
         LET c == resp'.chat
             n == Len(messages[c])
         IN /\ "generate_reply" \in SeqToSet(resp'.trace) =>
                  /\ Precedes(resp'.trace, "user_set", "generate_reply")
                  /\ Len(messages'[c]) > n
                  /\ messages'[c][n + 1].role # "assistant"
            /\ resp'.fault = "generate_reply" =>
                  /\ resp'.status = 502
                  /\ resp'.error = "ai_error"
                  /\ resp'.assistantMessage = <<>>
                  /\ Len(messages'[c]) = n + 1
                  /\ SubSeq(messages'[c], 1, n) = messages[c]
                  /\ resp'.userMessage = <<serialize_message(n + 1, messages'[c][n + 1])>>
                  /\ chats'[c][1].title = chats[c][1].title]_vars

\* generate_reply has raised and the user message is the last of the chat.
C2_Witness ==
    /\ resp.op = "add_message"
    /\ resp.status = 502
    /\ resp.userMessage # <<>>
    /\ messages[resp.chat] # <<>>
    /\ messages[resp.chat][Len(messages[resp.chat])].role = "user"
    /\ messages[resp.chat][Len(messages[resp.chat])].id = resp.userMessage[1].id

\* The files a payload names are files of the chat that the caller uploaded.
FilesKnown(p, c, uid) ==
    \A f \in NamedFiles(p.fileIds) : \E m \in files[c] : m.id = f /\ m.uid = uid

\* C3. Without an API key, add_message by the owner with a well-formed payload
\* stores the user message, does not call the generation client, and answers
\* 503 not_configured with the trimmed content as userMessage.content; GET
\* shows the messages stored, so one message for a chat that was empty.
C3_NotConfigured ==
    [][/\ (/\ Handles("add_message")
           /\ apiKey = <<>>
           /\ ByOwner
           /\ WellFormedMessage(resp'.req[1])
           /\ FilesKnown(resp'.req[1], resp'.chat, resp'.uid)
           /\ resp'.fault = "none") =>
             LET c == resp'.chat
                 n == Len(messages[c])
             IN /\ resp'.status = 503
                /\ resp'.error = "not_configured"
                /\ "generate_reply" \notin SeqToSet(resp'.trace)
                /\ resp'.userMessage # <<>>
                /\ resp'.userMessage[1].content = Trimmed(resp'.req[1].content)
                /\ Len(messages'[c]) = n + 1
                /\ SubSeq(messages'[c], 1, n) = messages[c]
                /\ messages'[c][n + 1].content = Trimmed(resp'.req[1].content)
                /\ messages'[c][n + 1].role \in {"user", "system"}
       /\ (Handles("add_message") /\ apiKey = <<>>) =>
             "generate_reply" \notin SeqToSet(resp'.trace)
       /\ (Handles("get_chat") /\ resp'.status = 200) =>
             /\ Len(resp'.body[1].messages) = Len(messages[resp'.chat])
             /\ \A i \in 1..Len(messages[resp'.chat]) :
                   resp'.body[1].messages[i].id = messages[resp'.chat][i].id]_vars

\* Without a key, GET shows the one message a chat holds: the user's "Hi".
C3_Witness ==
    /\ apiKey = <<>>
    /\ resp.op = "get_chat"
    /\ resp.status = 200
    /\ Len(resp.body[1].messages) = 1
    /\ resp.body[1].messages[1].content = Hi
    /\ resp.body[1].messages[1].role = "user"

\* A payload with no text and no file id left once the blank ids are dropped.
EmptySubmission(p) ==
    /\ ~HasText(p.content)
    /\ p.fileIds.isList
    /\ \A i \in 1..Len(p.fileIds.items) : p.fileIds.items[i].isStr
    /\ NamedFiles(p.fileIds) = {}

\* C4. add_message with no text and no file id is answered 400
\* validation_error and stores nothing, whatever the chat id, whoever the
\* caller and whether or not the chat exists.
C4_EmptyRejected ==
    [][(Handles("add_message") /\ EmptySubmission(resp'.req[1])) =>
          /\ resp'.status = 400
          /\ resp'.error = "validation_error"
          /\ StoreUnchanged
          /\ clock' = clock]_vars

\* The owner of a chat has sent it nothing but blanks.
C4_Witness ==
    /\ resp.op = "add_message"
    /\ resp.status = 400
    /\ EmptySubmission(resp.req[1])
    /\ chats[resp.chat] # <<>>
    /\ chats[resp.chat][1].uid = resp.uid

\* The signatures generate_reply tries, in the order it tries them
Attempts == <<"request_options", "timeout", "plain">>

\* C5. generate_reply calls generate_content at most three times, with
\* request_options, then timeout=, then no timeout; each further call is made
\* exactly when the call before it raised TypeError; the result is the
\* (trimmed) text of the call that returned, so a client that rejects the
\* first two signatures yields the text of the third.
C5_FallbackOrder ==
    gen # <<>> =>
       LET cl == gen[1].client
           r == gen[1].result
           n == Len(r.calls)
       IN /\ n <= 3
          /\ r.calls = SubSeq(Attempts, 1, n)
          /\ \A k \in 1..3 : k < n => cl.sig[k] = "TypeError"
          /\ (n \in 1..2) => cl.sig[n] # "TypeError"
          /\ format_messages(gen[1].messages) # <<>> => n >= 1
          /\ (n >= 1 /\ cl.sig[n] = "ok" /\ HasText(cl.text[n])) =>
                r.ok /\ r.text = Trimmed(cl.text[n])
          /\ r.ok => n >= 1 /\ cl.sig[n] = "ok" /\ r.text = Trimmed(cl.text[n])

\* The first two signatures were rejected and the text of the third came back.
C5_Witness ==
    /\ gen # <<>>
    /\ gen[1].client.sig = <<"TypeError", "TypeError", "ok">>
    /\ gen[1].client.text[1] # gen[1].client.text[3]
    /\ gen[1].result.ok
    /\ gen[1].result.calls = Attempts
    /\ gen[1].result.text = <<"O", "k">>

\* C6. In generate_reply a failure that is no TypeError is raised at once as
\* GeminiAPIError, with no further call; a TypeError of the first or second
\* call leads to the next call; any failure of the third call is raised as
\* GeminiAPIError.
C6_ErrorsWrapped ==
    gen # <<>> =>
       LET cl == gen[1].client
           r == gen[1].result
           n == Len(r.calls)
       IN /\ \A k \in 1..n : cl.sig[k] = "Error" =>
                k = n /\ ~r.ok /\ r.raised = "GeminiAPIError"
          /\ \A k \in 1..n : (cl.sig[k] = "TypeError" /\ k < 3) => n > k
          /\ \A k \in 1..n : k < n => cl.sig[k] = "TypeError"
          /\ (n = 3 /\ cl.sig[3] # "ok") => ~r.ok /\ r.raised = "GeminiAPIError"
          /\ r.ok <=> r.raised = "none"

\* The second call failed with an error that is no TypeError: no third call.
C6_Witness ==
    /\ gen # <<>>
    /\ gen[1].client.sig = <<"TypeError", "Error", "ok">>
    /\ gen[1].result.calls = <<"request_options", "timeout">>
    /\ gen[1].result.raised = "GeminiAPIError"

\* The chat has an assistant message: an exchange has succeeded in it.
HadExchange(c) == \E i \in 1..Len(messages[c]) : messages[c][i].role = "assistant"

\* The title is one that add_message replaces whatever the message is.
DefaultTitle(title) == Lower(Trimmed(title)) \in {<<>>, NewChatLower}

\* C7. The automatic title: a successful exchange generates a title exactly
\* when the stored title, trimmed, is empty or "new chat" in any case, or is
\* the trimmed content of the message just sent; the title changes only then,
\* and only when the generation and the write succeed; what is written is
\* never empty, and may be "New chat" again.  So from the first exchange on
\* the title stays as long as it is not one of the defaults and differs from
\* the message sent.
C7_TitleRule ==
    [][(Handles("add_message") /\ resp'.status = 201) =>
          LET c == resp'.chat
              title == chats[c][1].title
              content == Trimmed(resp'.req[1].content)
              regenerate == DefaultTitle(title) \/ Trimmed(title) = content
              calls == SeqToSet(resp'.trace)
          IN /\ regenerate <=> "generate_chat_title" \in calls
             /\ chats'[c][1].title # title =>
                   regenerate /\ "title_update" \in calls /\ resp'.fault = "none"
             /\ ("title_update" \in calls /\ resp'.fault = "none") =>
                   chats'[c][1].title # <<>>
             /\ ~regenerate => chats'[c][1].title = title]_vars

\* A second exchange of a chat has written a title.
C7_Witness ==
    /\ resp.op = "add_message"
    /\ resp.status = 201
    /\ resp.fault = "none"
    /\ "title_update" \in SeqToSet(resp.trace)
    /\ Len(messages[resp.chat]) = 4
    /\ messages[resp.chat][2].role = "assistant"

\* C7 as stated, "a second successful exchange does not change the title
\* again": in a chat created with the default title (in the model: the chats
\* without a system prompt, which no update has touched), once an exchange
\* has succeeded and the title is no default any more, a further successful
\* exchange leaves the title as it is.
C7_TitleOnce ==
    [][(/\ Handles("add_message")
        /\ resp'.status = 201
        /\ chats[resp'.chat][1].systemPrompt = <<>>
        /\ HadExchange(resp'.chat)
        /\ ~DefaultTitle(chats[resp'.chat][1].title)) =>
          chats'[resp'.chat][1].title = chats[resp'.chat][1].title]_vars

\* C8. The automatic title is best effort: when the title generation raises
\* or the write of the title fails, add_message answers 201 with the user
\* and the assistant message, both are stored, and the title stays as it
\* was; once the assistant message is stored nothing fails the request.
C8_TitleBestEffort ==
    [][Handles("add_message") =>
          LET c == resp'.chat
              n == Len(messages[c])
          IN /\ resp'.fault \in {"generate_chat_title", "title_update"} =>
                   /\ resp'.status = 201
                   /\ resp'.error = "none"
                   /\ Len(messages'[c]) = n + 2
                   /\ SubSeq(messages'[c], 1, n) = messages[c]
                   /\ messages'[c][n + 2].role = "assistant"
                   /\ resp'.userMessage = <<serialize_message(n + 1, messages'[c][n + 1])>>
                   /\ resp'.assistantMessage =
                         <<serialize_message(n + 2, messages'[c][n + 2])>>
                   /\ chats'[c][1].title = chats[c][1].title
             /\ ("ai_update" \in SeqToSet(resp'.trace) /\ resp'.fault # "ai_update") =>
                   resp'.status = 201]_vars

\* The write of the title has failed; the chat holds both messages and its
\* default title.
C8_Witness ==
    /\ resp.op = "add_message"
    /\ resp.status = 201
    /\ resp.fault = "title_update"
    /\ Len(messages[resp.chat]) = 2
    /\ chats[resp.chat][1].title = NewChat

\* C9. DELETE by the owner answers 204 and removes the chat and all its
\* messages; any other answer of DELETE removes nothing; no message is ever
\* stored under a chat that is gone, and a GET of a chat that is gone answers
\* 404.
C9_DeleteCascade ==
    [][/\ Handles("delete_chat") =>
             LET c == resp'.chat
             IN /\ (ByOwner /\ resp'.fault = "none") => resp'.status = 204
                /\ resp'.status = 204 => chats'[c] = <<>> /\ messages'[c] = <<>>
                /\ resp'.status # 204 => chats' = chats /\ messages' = messages
                /\ resp'.status = 503 => resp'.fault \in {"chat_get", "messages_stream",
                                                         "batch_commit"}
       /\ \A c \in ChatIds : chats'[c] = <<>> => messages'[c] = <<>>
       /\ (/\ Handles("get_chat")
           /\ chats[resp'.chat] = <<>>
           /\ resp'.uid # ""
           /\ resp'.fault = "none") => resp'.status = 404]_vars

\* A chat that had files and was written to after its creation is deleted.
C9_Witness ==
    /\ resp.op = "delete_chat"
    /\ resp.status = 204
    /\ chats[resp.chat] = <<>>
    /\ messages[resp.chat] = <<>>
    /\ files[resp.chat] # {}
    /\ clock >= 4

\* C10. An upload by the owner whose declared content-length is over the
\* maximum is answered 400 before anything is saved; one that is saved with
\* no byte, or with more bytes than the maximum, is answered 400 after the
\* save; in both cases there is no new file metadata and no file left on
\* the disk.
C10_UploadLimits ==
    [][(/\ Handles("upload_file")
        /\ resp'.req # <<>>
        /\ ByOwner
        /\ resp'.fault # "chat_get"
        /\ resp'.req[1].filename # "") =>
          LET f == resp'.req[1]
              calls == SeqToSet(resp'.trace)
              rejected == /\ resp'.status = 400
                          /\ resp'.error = "validation_error"
                          /\ files' = files
                          /\ disk' = disk
                          /\ chats' = chats
          IN /\ f.declared > MaxUploadSize => rejected /\ "save" \notin calls
             /\ (/\ f.declared <= MaxUploadSize
                 /\ f.save = "ok"
                 /\ f.size = 0 \/ f.size > MaxUploadSize) => rejected /\ "save" \in calls
             /\ resp'.status = 201 =>
                   /\ f.size \in 1..MaxUploadSize
                   /\ f.declared <= MaxUploadSize]_vars

\* More bytes than declared, and than the maximum, were saved and removed.
C10_Witness ==
    /\ resp.op = "upload_file"
    /\ resp.status = 400
    /\ resp.req # <<>>
    /\ resp.req[1].declared = 0
    /\ resp.req[1].size > MaxUploadSize
    /\ "save" \in SeqToSet(resp.trace)
    /\ disk = {}
    /\ files[resp.chat] = {}

\* C11. When file.save raises, upload_file answers 500 upload_failed with
\* the destination removed: no file is left on the disk, no file metadata is
\* written and the chat (its updatedAt included) stays as it was; and an
\* upload answers 500 only then.
C11_SaveFailureCleanup ==
    [][(/\ Handles("upload_file")
        /\ resp'.req # <<>>
        /\ ByOwner
        /\ resp'.fault # "chat_get"
        /\ resp'.req[1].filename # ""
        /\ resp'.req[1].declared <= MaxUploadSize) =>
          LET f == resp'.req[1]
              destination == Destination(resp'.chat, nextFile + 1)
          IN /\ f.save # "ok" <=> resp'.status = 500
             /\ f.save # "ok" =>
                   /\ resp'.error = "upload_failed"
                   /\ resp'.trace = <<"chat_get", "save">>
                   /\ destination \notin disk'
                   /\ disk' = disk
                   /\ files' = files
                   /\ chats' = chats
                   /\ nextFile' = nextFile]_vars

\* A save that left a partly written file has been answered, and the disk
\* is empty.
C11_Witness ==
    /\ resp.op = "upload_file"
    /\ resp.status = 500
    /\ resp.req # <<>>
    /\ resp.req[1].save = "fail_partial"
    /\ disk = {}
    /\ files[resp.chat] = {}

\* The file a stored storagePath names once the path is made canonical, for
\* the paths of StoredPaths, and whether a canonical path lies below the
\* upload root.
Canonical(path) ==
    CASE path = [abs |-> FALSE, segs |-> <<"..", "..", "etc", "passwd">>] -> SystemFile
      [] path = [abs |-> TRUE, segs |-> SystemFile] -> SystemFile
      [] path = [abs |-> FALSE, segs |-> <<"..", "uploads_evil", "x">>] -> SiblingFile
      [] path = NoStoragePath -> UploadRoot
      [] OTHER -> UploadedFile
Inside(p) ==
    /\ Len(p) >= Len(UploadRoot)
    /\ \A i \in 1..Len(UploadRoot) : p[i] = UploadRoot[i]

\* C12. The path-traversal guard as stated: _resolve_storage_path yields a
\* path only when the canonical path lies inside the upload root, and a
\* download of a file whose storagePath leads outside the root (through
\* "..", an absolute path, or a sibling directory named like the root) is
\* answered 404, no file being sent.
C12_TraversalGuard ==
    [][(/\ Handles("download_file")
        /\ resp'.fault = "none"
        /\ ByOwner
        /\ FileInfo(files[resp'.chat], resp'.req[1]) # <<>>) =>
          LET stored == FileInfo(files[resp'.chat], resp'.req[1])[1].storagePath
          IN /\ resolve_storage_path(stored) # <<>> => Inside(Canonical(stored))
             /\ ~Inside(Canonical(stored)) =>
                   /\ resp'.status = 404
                   /\ "send_file" \notin SeqToSet(resp'.trace)
             /\ resp'.status = 200 => Inside(resp'.body[1].path)]_vars

\* A file of the sibling directory /srv/uploads_evil has been sent.
C12_Witness ==
    /\ resp.op = "download_file"
    /\ resp.status = 200
    /\ resp.body[1].path = SiblingFile
    /\ "send_file" \in SeqToSet(resp.trace)

\* C13. add_message by the owner of the chat with a well-formed payload that
\* names files: when a file named has no metadata in the chat the answer is
\* 400 validation_error listing the missing ids; when all are there and one
\* was uploaded by another uid the answer is 403 forbidden; in both cases no
\* message is stored and the chat (its updatedAt included) stays as it was;
\* otherwise the attachments are accepted.
C13_AttachmentChecks ==
    [][(/\ Handles("add_message")
        /\ ByOwner
        /\ WellFormedMessage(resp'.req[1])
        /\ NamedFiles(resp'.req[1].fileIds) # {}
        /\ resp'.fault = "none") =>
          LET c == resp'.chat
              ids == NamedFiles(resp'.req[1].fileIds)
              missing == {f \in ids : \A m \in files[c] : m.id # f}
              foreign == {f \in ids : \E m \in files[c] : m.id = f /\ m.uid # resp'.uid}
          IN /\ missing # {} =>
                   /\ resp'.status = 400
                   /\ resp'.error = "validation_error"
                   /\ resp'.body # <<>>
                   /\ SeqToSet(resp'.body[1].missingFileIds) = missing
                   /\ StoreUnchanged
                   /\ clock' = clock
             /\ (missing = {} /\ foreign # {}) =>
                   /\ resp'.status = 403
                   /\ resp'.error = "forbidden"
                   /\ StoreUnchanged
                   /\ clock' = clock
             /\ (missing = {} /\ foreign = {}) =>
                   /\ resp'.status \notin {400, 403}
                   /\ Len(messages'[c]) > Len(messages[c])]_vars

\* The owner of a chat has named a file of the chat that another uid
\* uploaded, and nothing was stored.
C13_Witness ==
    /\ resp.op = "add_message"
    /\ resp.status = 403
    /\ chats[resp.chat] # <<>>
    /\ chats[resp.chat][1].uid = resp.uid
    /\ \E m \in files[resp.chat] : m.uid # resp.uid
    /\ messages[resp.chat] = <<>>

\* The role a payload of add_message asks for, in lower case: user when it
\* names none.
AskedRole(p) ==
    CASE p.role = "" -> "user"
      [] p.role = "System" -> "system"
      [] p.role = "Assistant" -> "assistant"
      [] OTHER -> p.role

\* C14. add_message takes the roles user and system, in any case, user by
\* default: a request for another role, assistant included, is answered 400
\* validation_error and stores nothing; the message a request stores has the
\* role asked for; and a message of role assistant is stored only by an
\* add_message whose generate_reply returned, after the user message.  No
\* other route adds a message.
C14_RolesAccepted ==
    [][/\ Handles("add_message") =>
             LET p == resp'.req[1]
                 c == resp'.chat
                 n == Len(messages[c])
                 n2 == Len(messages'[c])
             IN /\ AskedRole(p) \notin {"user", "system"} =>
                      /\ resp'.status = 400
                      /\ resp'.error = "validation_error"
                      /\ StoreUnchanged
                      /\ clock' = clock
                /\ n2 \in {n, n + 1, n + 2}
                /\ SubSeq(messages'[c], 1, n) = messages[c]
                /\ n2 > n => messages'[c][n + 1].role = AskedRole(p)
                /\ n2 > n => AskedRole(p) \in {"user", "system"}
                /\ n2 = n + 2 =>
                      /\ messages'[c][n + 2].role = "assistant"
                      /\ "generate_reply" \in SeqToSet(resp'.trace)
                      /\ resp'.fault # "generate_reply"
                /\ \A d \in ChatIds \ {c} : messages'[d] = messages[d]
       /\ (resp = NoResponse /\ resp'.op # "add_message") =>
             \A c \in ChatIds : messages'[c] = messages[c] \/ messages'[c] = <<>>]_vars

\* The owner of a chat has asked to store a text as an assistant message and
\* was refused.
C14_Witness ==
    /\ resp.op = "add_message"
    /\ resp.status = 400
    /\ resp.req[1].role = "Assistant"
    /\ HasText(resp.req[1].content)
    /\ chats[resp.chat] # <<>>
    /\ chats[resp.chat][1].uid = resp.uid
    /\ apiKey # <<>>

\* The lower-case index of a list of words is the list in lower case, word
\* by word.
IndexOf(words, index) ==
    /\ Len(index) = Len(words)
    /\ \A i \in 1..Len(words) :
          /\ Len(index[i]) = Len(words[i])
          /\ \A k \in 1..Len(words[i]) : index[i][k] = LowerChar(words[i][k])

\* C15. Every stored note has keywordsLower equal to keywords in lower case
\* and triggerWordsLower equal to triggerWords in lower case, word by word;
\* an update_note that is given keywords (trigger words) writes the list and
\* its index in one update, and one that is not given them leaves both as
\* they were.
C15_LowerIndex ==
    [][/\ \A n \in NoteIds : notes'[n] # <<>> =>
             /\ IndexOf(notes'[n][1].keywords, notes'[n][1].keywordsLower)
             /\ IndexOf(notes'[n][1].triggerWords, notes'[n][1].triggerWordsLower)
       /\ (Handles("update_note") /\ notes'[resp'.chat] # notes[resp'.chat]) =>
             LET u == resp'.req[1]
                 old == notes[resp'.chat][1]
                 new == notes'[resp'.chat][1]
             IN /\ ~u.hasKeywords =>
                      new.keywords = old.keywords /\ new.keywordsLower = old.keywordsLower
                /\ ~(u.hasTriggerWords \/ u.hasTriggerwords) =>
                      /\ new.triggerWords = old.triggerWords
                      /\ new.triggerWordsLower = old.triggerWordsLower
                /\ (u.hasKeywords /\ u.keywords = <<NoteWords>>) =>
                      new.keywords = <<Hi, <<"T">>>>]_vars

\* A note created without words was given the keywords "Hi" and "T" by an
\* update, and holds "hi" and "t" as their index.
C15_Witness ==
    /\ resp.op = "update_note"
    /\ resp.body # <<>>
    /\ notes[resp.chat] # <<>>
    /\ notes[resp.chat][1].keywords = <<Hi, <<"T">>>>
    /\ notes[resp.chat][1].keywordsLower = <<<<"h", "i">>, <<"t">>>>
    /\ notes[resp.chat][1].triggerWords = <<<<"T">>>>
    /\ notes[resp.chat][1].triggerWordsLower = <<<<"t">>>>

\* The candidate trigger words of the texts searched for: the words of two
\* characters or more, in lower case, the first ten of them.
CandidatesOf(text) ==
    CASE text = <<InvoiceText>> -> {<<"p", "l", "e", "a", "s", "e">>, <<"r", "e", "v", "i", "e", "w">>, <<"t", "h", "e">>, <<"i", "n", "v", "o", "i", "c", "e">>, <<"n", "o", "w">>}
      [] text = <<ManyWordsText>> ->
                {<<"a", "a">>, <<"b", "b">>, <<"c", "c">>, <<"d", "d">>, <<"e", "e">>,
                 <<"f", "f">>, <<"g", "g">>, <<"h", "h">>, <<"i", "i">>, <<"o", "'", "k", "-", "j", "j">>}
      [] OTHER -> {}

\* The notes of uid with a trigger word among the candidates of a text.
MatchingNotes(uid, text) ==
    {n \in DOMAIN notes :
        /\ notes[n] # <<>>
        /\ notes[n][1].uid = uid
        /\ \E i \in 1..Len(notes[n][1].triggerWordsLower) :
              notes[n][1].triggerWordsLower[i] \in CandidatesOf(text)}

\* C16. find_notes_for_text as stated: when the store answers the ordered
\* query, the result is the notes of uid that share a trigger word with the
\* candidates of the text, the `limit` most recently updated of them, most
\* recent first: no note of another uid, no note without a shared word, and
\* no more recent matching note left out.
C16_FindNotes ==
    [][(/\ Handles("find_notes_for_text")
        /\ resp'.req[1].store = "ok"
        /\ resp'.fault = "none") =>
          LET found == resp'.body[1]
              matching == MatchingNotes(resp'.uid, resp'.req[1].text)
              limit == resp'.req[1].limit
              at(n) == notes[n][1].updatedAt
          IN /\ \A i \in 1..Len(found) : found[i].id \in matching
             /\ \A i, j \in 1..Len(found) : i < j => at(found[i].id) > at(found[j].id)
             /\ Len(found) = IF Cardinality(matching) < limit
                             THEN Cardinality(matching) ELSE limit
             /\ \A m \in matching :
                   (\A i \in 1..Len(found) : found[i].id # m) =>
                      \A i \in 1..Len(found) : at(found[i].id) > at(m)]_vars

\* The note with the trigger word "Invoice" is found for "Please review the
\* Invoice now", a note of another uid and a note without trigger words
\* being in the store.
C16_Witness ==
    /\ resp.op = "find_notes_for_text"
    /\ resp.req[1].text = <<InvoiceText>>
    /\ resp.body # <<>>
    /\ Len(resp.body[1]) = 1
    /\ resp.body[1][1].uid = resp.uid
    /\ resp.body[1][1].triggerWords = <<Invoice>>
    /\ \E n \in DOMAIN notes : notes[n][1].uid # resp.uid
    /\ \E n \in DOMAIN notes : notes[n][1].uid = resp.uid /\ notes[n][1].triggerWords = <<>>

\* The calls of a stream_reply result that went to one method of one host.
CallsTo(r, host_name, method_name) ==
    SelectSeq(r.calls, LAMBDA call : call.host = host_name /\ call.method = method_name)

\* The hosts of a client that are there, by name.
HostNames(cl) ==
    {h \in {"models", "responses"} : cl[h] # NoHost}

\* stream_reply was called with a conversation that formats to something.
Streamed == gen # <<>> /\ gen[1].op = "stream_reply" /\ format_messages(gen[1].messages) # <<>>

\* C17. stream_reply calls a dedicated streaming method with request_options,
\* then timeout=, then no timeout argument; each further call is made exactly
\* when the call before it raised TypeError; the stream of the first call
\* that returns is the result and no call follows it; a failure that is no
\* TypeError is raised at once as GeminiAPIError; the first dedicated method
\* that client.models has is called.
C17_DedicatedFallback ==
    Streamed =>
       LET cl == gen[1].client
           r == gen[1].result
       IN /\ \A h \in HostNames(cl), d \in {"stream_generate_content", "generate_content_stream"} :
                cl[h][1][d] # NoMethod =>
                   LET sig == cl[h][1][d][1]
                       mine == CallsTo(r, h, d)
                       n == Len(mine)
                   IN /\ n <= 3
                      /\ \A k \in 1..n : mine[k].kwargs = Attempts[k] /\ mine[k].stream = "unset"
                      /\ \A k \in 1..n : k < n => sig[k] = "TypeError"
                      /\ (n \in 1..2) => sig[n] # "TypeError"
                      /\ (n >= 1 /\ sig[n] = "ok") =>
                            /\ r.stream = <<mine[n]>>
                            /\ r.raised = "none"
                            /\ r.calls[Len(r.calls)] = mine[n]
                      /\ (n >= 1 /\ sig[n] = "Error") =>
                            /\ r.stream = <<>>
                            /\ r.raised = "GeminiAPIError"
                            /\ r.calls[Len(r.calls)] = mine[n]
          /\ \A d \in {"stream_generate_content", "generate_content_stream"} :
                ("models" \in HostNames(cl) /\ cl.models[1][d] # NoMethod) =>
                   \E e \in {"stream_generate_content", "generate_content_stream"} :
                      /\ r.calls # <<>>
                      /\ r.calls[1].host = "models"
                      /\ r.calls[1].method = e
                      /\ cl.models[1][e] # NoMethod

\* generate_content_stream, the one dedicated method of client.models,
\* rejected request_options= and returned a stream for timeout=.
C17_Witness ==
    /\ Streamed
    /\ gen[1].client.models = Host(NoMethod, Method("TypeError", "ok", "Error"), NoMethod)
    /\ Len(gen[1].result.calls) = 2
    /\ gen[1].result.stream =
          <<[host |-> "models", method |-> "generate_content_stream", kwargs |-> "timeout",
             stream |-> "unset"]>>

\* C18. When client.models has no dedicated streaming method and has
\* generate_content, stream_reply calls generate_content with stream=True and
\* request_options, then timeout=, then no timeout argument, going on after a
\* TypeError (and after a result that is None or no stream), and the stream a
\* call returns is the result; stream_reply never calls generate_content
\* without stream=True.
C18_GenerateFallback ==
    Streamed =>
       LET cl == gen[1].client
           r == gen[1].result
       IN /\ \A i \in 1..Len(r.calls) :
                r.calls[i].method = "generate_content" => r.calls[i].stream = "True"
          /\ ("models" \in HostNames(cl)
              /\ cl.models[1].stream_generate_content = NoMethod
              /\ cl.models[1].generate_content_stream = NoMethod
              /\ cl.models[1].generate_content # NoMethod) =>
                LET sig == cl.models[1].generate_content[1]
                    mine == CallsTo(r, "models", "generate_content")
                    n == Len(mine)
                IN /\ n \in 1..3
                   /\ SubSeq(r.calls, 1, n) = mine
                   /\ \A k \in 1..n : mine[k].kwargs = Attempts[k]
                   /\ \A k \in 1..n : k < n => sig[k] \in {"TypeError", "None", "NotAStream"}
                   /\ n < 3 => sig[n] \in {"ok", "Error"}
                   /\ sig[n] = "ok" =>
                         /\ r.stream = <<mine[n]>>
                         /\ r.raised = "none"
                         /\ Len(r.calls) = n

\* client.models has generate_content alone; it rejected the first two
\* signatures and returned a stream for stream=True without a timeout.
C18_Witness ==
    /\ Streamed
    /\ gen[1].client.models = Host(NoMethod, NoMethod, Method("TypeError", "TypeError", "ok"))
    /\ Len(gen[1].result.calls) = 3
    /\ gen[1].result.stream =
          <<[host |-> "models", method |-> "generate_content", kwargs |-> "plain",
             stream |-> "True"]>>

\* The named fields of a profile that upsert_user_profile takes as arguments.
ProfileFields == {"email", "displayName", "photoUrl"}

\* The step is an upsert that reached doc_ref.set and was not refused by it.
Upserted ==
    /\ Handles("upsert_user_profile")
    /\ resp'.fault \notin {"profile_get", "profile_set"}

\* C19. upsert_user_profile merges: a field passed as None keeps the value
\* that was stored (and stays absent when none was), a field passed with a
\* value takes it; createdAt is written by the upsert that finds no document
\* and keeps its value in every later step; updatedAt is set to a new, later
\* timestamp by every upsert; an upsert that fails before or in the write
\* changes nothing, and no upsert touches the profile of another uid.
C19_MergeSemantics ==
    [][/\ \A u \in Uids :
             users[u] # <<>> =>
                /\ users'[u] # <<>>
                /\ users'[u][1].createdAt = users[u][1].createdAt
       /\ Handles("upsert_user_profile") =>
             /\ \A u \in Uids : u # resp'.uid => users'[u] = users[u]
             /\ ~Upserted => users' = users
       /\ Upserted =>
             LET uid == resp'.uid
                 passed == resp'.req[1]
                 new == users'[uid][1]
             IN /\ \A f \in ProfileFields :
                      /\ passed[f] # <<>> => f \in DOMAIN new /\ new[f] = passed[f][1]
                      /\ (passed[f] = <<>> /\ users[uid] # <<>>) =>
                            /\ f \in DOMAIN new <=> f \in DOMAIN users[uid][1]
                            /\ f \in DOMAIN new => new[f] = users[uid][1][f]
                      /\ (passed[f] = <<>> /\ users[uid] = <<>>) => f \notin DOMAIN new
                /\ users[uid] = <<>> => new.createdAt = userClock'
                /\ new.updatedAt = userClock'
                /\ userClock' > userClock
                /\ users[uid] # <<>> => new.updatedAt > users[uid][1].updatedAt]_vars

\* A profile created with an e-mail address was upserted again without one:
\* the address is the stored one, createdAt is that of the first upsert and
\* updatedAt is later.
C19_Witness ==
    /\ resp.op = "upsert_user_profile"
    /\ resp.fault = "none"
    /\ resp.req[1].email = <<>>
    /\ resp.req[1].displayName # <<>>
    /\ users[resp.uid] # <<>>
    /\ "email" \in DOMAIN users[resp.uid][1]
    /\ users[resp.uid][1].email = "a@x"
    /\ users[resp.uid][1].createdAt = 1
    /\ users[resp.uid][1].updatedAt > 1
    /\ resp.body[1].createdAt = 1

\* The read operations.
ReadOps == {"get_chat", "list_chats", "list_files", "get_note", "list_notes"}

\* The response of the read that was answered, were it made once more now.
ReadAgain ==
    CASE resp.op = "get_chat" -> get_chat(resp.chat, resp.uid, "none").resp
      [] resp.op = "list_chats" -> list_chats(resp.uid, "none").resp
      [] resp.op = "list_files" -> list_files(resp.chat, resp.uid, "none").resp
      [] resp.op = "get_note" -> get_note(resp.chat, resp.uid, "none").resp
      [] resp.op = "list_notes" ->
            [list_notes(resp.uid, resp.req[1].limit, "none").resp EXCEPT !.req = resp.req]
      [] OTHER -> resp

\* The notes a read returned, serialized, and serialized from the store as
\* it is after the read.
NotesSerializedAlike ==
    /\ (resp.op = "get_note" /\ resp.body # <<>>) =>
          serialize_note(resp.chat, resp.body[1])
             = serialize_note(resp.chat, returned_note(resp.chat, notes[resp.chat][1]))
    /\ (resp.op = "list_notes" /\ resp.body # <<>>) =>
          \A i \in 1..Len(resp.body[1]) :
             LET n == resp.body[1][i].id
             IN serialize_note(n, resp.body[1][i])
                   = serialize_note(n, returned_note(n, notes[n][1]))

\* C20. A read (GET chat, list chats, list files, get_note, list_notes)
\* leaves every chat, message, file metadata, stored byte and note as it was,
\* and what it serialized is what serializing the same documents once more
\* gives: the same read made again right after it has the same response.
C20_ReadsIdempotent ==
    [][(resp = NoResponse /\ resp'.op \in ReadOps) =>
          /\ StoreUnchanged
          /\ notes' = notes
          /\ resp'.fault = "none" =>
                /\ (resp = ReadAgain)'
                /\ NotesSerializedAlike'
                /\ (resp'.op = "get_chat" /\ resp'.status = 200) =>
                      resp'.body[1].chat = serialize_chat(resp'.chat, chats'[resp'.chat][1])]_vars

\* GET chat returned a chat with a message that names a file, and its file.
C20_Witness ==
    /\ resp.op = "get_chat"
    /\ resp.status = 200
    /\ resp.body[1].chat = serialize_chat(resp.chat, chats[resp.chat][1])
    /\ Len(resp.body[1].messages) >= 1
    /\ resp.body[1].messages[1].fileIds # <<>>
    /\ Len(resp.body[1].files) >= 1

\* The content the history of add_message and GET give a stored message: its
\* text with the blocks of its attachments.
Enriched(files_data, m) == compose_message_content(m.content, m.fileIds, files_data)

TitlePunctuation == {".", ";", ":"}

\* C22 as stated: the title generate_chat_title returns is never empty, never
\* longer than 80 characters, and never ends with a punctuation character
\* (of those it strips: full stop, semicolon, colon).
C22_TitleShape ==
    (gen # <<>> /\ gen[1].op = "generate_chat_title" /\ gen[1].result.ok) =>
       LET title == gen[1].result.title
       IN /\ title # <<>>
          /\ Len(title) <= TitleMaxLen
          /\ title[Len(title)] \notin TitlePunctuation

\* The title of the reply "Hi." with a second line is "Hi".
C22_Witness ==
    /\ gen # <<>>
    /\ gen[1].op = "generate_chat_title"
    /\ gen[1].client.text[1] = <<"H", "i", ".", "\n", "x">>
    /\ gen[1].result.ok
    /\ gen[1].result.title = Hi

\* The positions i..j of a text that hold a word: letters and digits, and,
\* when joined is set, single joiners that stand between two of them.
IsWord(s, i, j, joined) ==
    /\ i <= j
    /\ IsWordChar(s[i])
    /\ IsWordChar(s[j])
    /\ \A k \in i..j :
          \/ IsWordChar(s[k])
          \/ joined /\ s[k] \in {"'", "-"} /\ IsWordChar(s[k - 1]) /\ IsWordChar(s[k + 1])

\* The words of a text that are part of no longer word, by their positions.
Words(s, joined) ==
    {w \in (1..Len(s)) \X (1..Len(s)) :
        /\ IsWord(s, w[1], w[2], joined)
        /\ \A v \in (1..Len(s)) \X (1..Len(s)) :
              (IsWord(s, v[1], v[2], joined) /\ v[1] <= w[1] /\ w[2] <= v[2]) => v = w}

\* The words of two characters or more, each where it first appears.
FirstWords(s, joined) ==
    {w \in Words(s, joined) :
        /\ w[2] - w[1] + 1 >= 2
        /\ \A v \in Words(s, joined) :
              SubSeq(s, v[1], v[2]) = SubSeq(s, w[1], w[2]) => w[1] <= v[1]}

\* The first ten of them, in the order of the text.
RECURSIVE InTextOrder(_, _, _)
InTextOrder(s, ws, n) ==
    IF ws = {} \/ n = 0 THEN <<>>
    ELSE LET w == CHOOSE x \in ws : \A y \in ws : x[1] <= y[1]
         IN <<SubSeq(s, w[1], w[2])>> \o InTextOrder(s, ws \ {w}, n - 1)

CandidateWords(text, joined) ==
    IF text = <<>> THEN <<>>
    ELSE InTextOrder(Lower(text[1]), FirstWords(Lower(text[1]), joined), 10)

\* extract_trigger_candidates was called.
Extracted == gen # <<>> /\ gen[1].op = "extract_trigger_candidates"

UsablePart(p) ==
    \/ p.kind = "Part"
    \/ p.kind \in {"str", "text"} /\ HasText(p.text)
    \/ p.kind \in {"bytes", "inline_data", "upload"} /\ p.ok
Sendable(m) == HasText(m.content) \/ \E i \in 1..Len(m.parts) : UsablePart(m.parts[i])

\* The role a message is sent with.
SentRole(role) ==
    CASE role = "system" -> "user"
      [] role = "assistant" -> "model"
      [] role = "user" -> "user"

Formatted == gen # <<>> /\ gen[1].op = "_format_messages"

\* C24. _format_messages keeps the order of its input, sends system as
\* user, assistant as model and user as user, and drops every message that
\* has neither a text that is not blank nor a part; when no message remains,
\* generate_reply and stream_reply raise GeminiAPIError and make no call.
C24_FormatMessages ==
    gen # <<>> =>
       LET ms == gen[1].messages
           kept == {i \in 1..Len(ms) : Sendable(ms[i])}
       IN /\ gen[1].op = "_format_messages" =>
                /\ Len(gen[1].result) = Cardinality(kept)
                /\ \A n \in 1..Len(gen[1].result) :
                      \E i \in kept :
                         /\ Cardinality({j \in kept : j <= i}) = n
                         /\ gen[1].result[n].role = SentRole(ms[i].role)
                         /\ gen[1].result[n].parts # <<>>
          /\ (gen[1].op \in {"generate_reply", "stream_reply"} /\ kept = {}) =>
                /\ gen[1].result.raised = "GeminiAPIError"
                /\ gen[1].result.calls = <<>>

\* Three messages, the second with a blank text and no part: the assistant's
\* is sent as model, the system's as user, the second is dropped.
C24_Witness ==
    /\ Formatted
    /\ Len(gen[1].messages) = 3
    /\ gen[1].messages[1].role = "assistant"
    /\ gen[1].messages[2].parts = <<>>
    /\ ~HasText(gen[1].messages[2].content)
    /\ gen[1].messages[3].role = "system"
    /\ Len(gen[1].result) = 2
    /\ gen[1].result[1].role = "model"
    /\ gen[1].result[2].role = "user"

\* C25. A stored message is never changed: after any step every message
\* that was stored is stored as it was, role, content, createdAt and fileIds
\* alike, at its place in its chat, unless the step is a delete_chat of its
\* chat that answered 204, which removes every message of the chat.  The
\* content get_chat returns, enriched with the attachments, is not stored.
C25_MessagesImmutable ==
    [][\A c \in ChatIds :
          \/ /\ Len(messages'[c]) >= Len(messages[c])
             /\ \A i \in 1..Len(messages[c]) : messages'[c][i] = messages[c][i]
          \/ /\ resp'.op = "delete_chat"
             /\ resp'.chat = c
             /\ resp'.status = 204
             /\ messages'[c] = <<>>]_vars

\* get_chat has answered with a message whose content it made of the
\* attachment, and the stored message has the empty content it was sent with.
C25_Witness ==
    /\ resp.op = "get_chat"
    /\ resp.status = 200
    /\ \E c \in ChatIds :
          /\ resp.chat = c
          /\ Len(messages[c]) = 2
          /\ messages[c][1].fileIds # <<>>
          /\ messages[c][1].content = <<>>
          /\ resp.body[1].messages[1].content # <<>>

\* The chats that are deleted and have a message stored under them.
Orphaned == {c \in ChatIds : chats[c] = <<>> /\ messages[c] # <<>>}

\* C26. The lookup of add_message and its write are not atomic against a
\* delete_chat: a message comes to be stored under a deleted chat in the
\* write of a request whose chat was deleted after its lookup (the message
\* is set, the update of the chat fails, the answer is 503), and in no other
\* step: no handler that runs from its lookup to its end without another
\* request between leaves a message without its chat.
C26_CheckThenWrite ==
    [][\A c \in ChatIds :
          (/\ c \in Orphaned'
           /\ (c \notin Orphaned \/ messages'[c] # messages[c])) =>
             /\ gen # <<>>
             /\ gen[1].op = "add_message"
             /\ gen[1].chat = c
             /\ gen' = <<>>
             /\ chats[c] = <<>>
             /\ messages'[c] = Append(messages[c], messages'[c][Len(messages'[c])])
             /\ resp'.op = "add_message"
             /\ resp'.status = 503]_vars

\* delete_chat was answered 204 between the lookup of an add_message and
\* its write, and the message is stored under the deleted chat.
C26_Witness ==
    /\ resp.op = "add_message"
    /\ resp.status = 503
    /\ resp.fault = "user_update"
    /\ resp.chat \in Orphaned
    /\ Len(messages[resp.chat]) = 1
    /\ messages[resp.chat][1].content = Hi

\* The file ids of a message are sound in a chat with the metadata documents
\* docs: each is the id of one of them, uploaded by the sender of the
\* message, none is the blank id, none is there twice.
SoundFileIds(m, docs) ==
    /\ \A k \in 1..Len(m.fileIds) :
          /\ m.fileIds[k] # 0
          /\ \E f \in docs : f.id = m.fileIds[k] /\ f.uid = m.uid
    /\ \A k, l \in 1..Len(m.fileIds) : k # l => m.fileIds[k] # m.fileIds[l]

WithMetadata(c) == {m.id : m \in files[c]}
WithBytes(c) == {f \in FileIds : Destination(c, f) \in disk}

\* C28. After an upload_file request has finished, whatever its outcome, a
\* file metadata document exists if and only if the bytes are on the disk at
\* its storagePath.
C28_MetadataIffBytes ==
    resp.op = "upload_file" => \A c \in ChatIds : WithMetadata(c) = WithBytes(c)

\* chat_ref.update raised after file_ref.set had written the metadata: the
\* request is answered 503, the document is stored and its bytes are gone.
C28_Witness ==
    /\ resp.op = "upload_file"
    /\ resp.status = 503
    /\ resp.fault = "chat_update"
    /\ \E m \in files[resp.chat] :
          /\ m.storagePath = StoragePath(resp.chat, m.id)
          /\ Destination(resp.chat, m.id) \notin disk

\* C29. Every message stored with the role assistant has a content that is
\* not empty and has no blank at either end.  generate_reply raises
\* GeminiAPIError on a response that is empty or blank, and add_message then
\* stores no assistant message and answers 502 with the user message it
\* stored.
C29_AssistantContent ==
    /\ \A c \in ChatIds : \A i \in 1..Len(messages[c]) :
          messages[c][i].role = "assistant" =>
             /\ messages[c][i].content # <<>>
             /\ messages[c][i].content[1] \notin Whitespace
             /\ messages[c][i].content[Len(messages[c][i].content)] \notin Whitespace
    /\ (/\ resp.op = "add_message"
        /\ resp.body # <<>>
        /\ resp.body[1] = [message |-> "empty_response"]) =>
          LET ms == messages[resp.chat]
          IN /\ resp.status = 502
             /\ resp.error = "ai_error"
             /\ resp.assistantMessage = <<>>
             /\ ms # <<>>
             /\ ms[Len(ms)].role # "assistant"
             /\ resp.userMessage = <<serialize_message(Len(ms), ms[Len(ms)])>>

\* The response of the generation call was blank: the answer is 502, and
\* the chat holds the user message and nothing after it.
C29_Witness ==
    /\ resp.op = "add_message"
    /\ resp.status = 502
    /\ resp.body = <<[message |-> "empty_response"]>>
    /\ Len(messages[resp.chat]) = 1
    /\ messages[resp.chat][1].content = Hi
    /\ resp.userMessage # <<>>

\* The chat document d became e with no field changed but those named.
OnlyChanged(d, e, fields) ==
    /\ DOMAIN e = DOMAIN d
    /\ \A k \in DOMAIN d : k \notin fields => e[k] = d[k]

\* C30. The uid and the createdAt of a chat never change after create_chat.
\* update_chat writes title, systemPrompt and updatedAt only, and with
\* neither title nor systemPrompt in the payload it answers 400 and writes
\* nothing; upload_file writes updatedAt only; add_message writes updatedAt
\* and, when it generated a title, title; no other request changes a chat
\* that stays stored.
C30_ChatIdentity ==
    [][\A c \in ChatIds :
          (chats[c] # <<>> /\ chats'[c] # <<>>) =>
             LET d == chats[c][1]
                 e == chats'[c][1]
             IN /\ e.uid = d.uid
                /\ e.createdAt = d.createdAt
                /\ CASE c # resp'.chat -> e = d
                     [] resp'.op = "update_chat" ->
                          /\ OnlyChanged(d, e, {"title", "systemPrompt", "updatedAt"})
                          /\ (~resp'.req[1].hasTitle /\ ~resp'.req[1].hasPrompt) =>
                                /\ e = d
                                /\ (d.uid = resp'.uid /\ resp'.fault = "none") =>
                                      resp'.status = 400
                     [] resp'.op = "upload_file" -> OnlyChanged(d, e, {"updatedAt"})
                     [] resp'.op = "add_message" ->
                          /\ OnlyChanged(d, e, {"title", "updatedAt"})
                          /\ e.title # d.title => resp'.titled # <<>>
                     [] OTHER -> e = d]_vars

\* update_chat has set the title and the system prompt of a chat at a later
\* time than its creation, and the chat has the uid and createdAt it had.
C30_Witness ==
    /\ resp.op = "update_chat"
    /\ resp.status = 200
    /\ chats[resp.chat] # <<>>
    /\ chats[resp.chat][1].systemPrompt = <<<<"S">>>>
    /\ chats[resp.chat][1].title = <<>>
    /\ chats[resp.chat][1].uid = resp.uid
    /\ chats[resp.chat][1].createdAt = 1
    /\ chats[resp.chat][1].updatedAt > 1

====
